---- MODULE Spec2Model ----
(***************************************************************************)
(* State-machine model of the lottery canvas application (src/App.tsx):    *)
(* the App component's state (images, history, draw engine, view) and the  *)
(* CanvasEditor component's pointer state machine.                          *)
(*                                                                         *)
(* Numbers that the code computes with division (world/local coordinates,  *)
(* scale, pan) are exact rationals <<n, d>> with d > 0 in lowest terms.     *)
(* A value that is `null` in the code is the empty sequence <<>>, and a     *)
(* present value v is the one-element sequence <<v>>.                       *)
(***************************************************************************)
EXTENDS Integers, Sequences, FiniteSets, TLC

(* ------------------------------------------------------------------ *)
(* Program constants                                                  *)
(* ------------------------------------------------------------------ *)
DRAG_THRESHOLD == 5
HANDLE_SIZE == 8
IMAGE_GAP == 100
MIN_SELECTION_SIZE == 10
HISTORY_CAP == 100
GRID_MIN == 1
GRID_MAX == 50
DEFAULT_GRID_ROWS == 1
DEFAULT_GRID_COLS == 5
DEFAULT_WINNER_COUNT == 1
DEFAULT_ANIMATION_DURATION == 3
MS_PER_SECOND == 1000

(* ------------------------------------------------------------------ *)
(* Bounds of the model                                                *)
(* ------------------------------------------------------------------ *)
MaxHist == 3          \* pointer gestures start while the log is shorter
MaxPointers == 3      \* pointers that touch the canvas
DrawPointers == 2     \* pointers of the drawing specification
MaxSeconds == 2       \* the clock stops after this many seconds
MaxWinnerCount == 3   \* largest winner count typed into the input
MaxDraws == 2         \* tick loops scheduled at the same time
MaxLog == 4           \* entries of the log in the history specification
MaxGrid == 2          \* rows and columns set by the grid controls
MaxFuture == 1        \* entries of the redo stack in the cap specification
MaxReplays == 1       \* redo and restore entries in the log of the cap specification
MaxNavLog == 3        \* entries of the log in the navigation specification
MaxImages == 3        \* images of a configuration file in the layout specification
MaxZoom == 2          \* the zoom buttons of the view specification work up to this scale
MaxEdits == 2         \* gestures of the editing specification

(* ------------------------------------------------------------------ *)
(* Exact rational arithmetic                                          *)
(* ------------------------------------------------------------------ *)
RECURSIVE GCD(_, _)
GCD(a, b) == IF b = 0 THEN a ELSE GCD(b, a % b)

IAbs(n) == IF n < 0 THEN -n ELSE n

(* A number is a pair <<n, d>> in lowest terms with d >= 0: d > 0 is the
   rational n / d, <<1, 0>> and <<-1, 0>> are Infinity and -Infinity, and
   <<0, 0>> is NaN. *)
NaN == <<0, 0>>
isNaN(a) == a = NaN
isFinite(a) == a[2] # 0

QN(n, d) ==
  IF d = 0 THEN <<IF n > 0 THEN 1 ELSE IF n < 0 THEN -1 ELSE 0, 0>>
  ELSE LET g == GCD(IAbs(n), IAbs(d))
           s == IF d < 0 THEN -1 ELSE 1
       IN  <<(s * n) \div g, (s * d) \div g>>

Q(n) == <<n, 1>>
QNeg(a) == <<-a[1], a[2]>>
QAdd(a, b) ==
  IF a[2] = 0 /\ b[2] = 0 THEN (IF a = b THEN a ELSE NaN)
  ELSE QN(a[1] * b[2] + b[1] * a[2], a[2] * b[2])
QSub(a, b) == QAdd(a, QNeg(b))
QMul(a, b) == QN(a[1] * b[1], a[2] * b[2])
QDiv(a, b) == QMul(a, QN(b[2], b[1]))
QLt(a, b) ==
  /\ ~isNaN(a) /\ ~isNaN(b)
  /\ IF a[2] = 0 /\ b[2] = 0 THEN a[1] < b[1] ELSE a[1] * b[2] < b[1] * a[2]
QLe(a, b) ==
  /\ ~isNaN(a) /\ ~isNaN(b)
  /\ IF a[2] = 0 /\ b[2] = 0 THEN a[1] <= b[1] ELSE a[1] * b[2] <= b[1] * a[2]
MathAbs(a) == <<IAbs(a[1]), a[2]>>
MathMin(a, b) == IF isNaN(a) \/ isNaN(b) THEN NaN ELSE IF QLt(b, a) THEN b ELSE a
MathMax(a, b) == IF isNaN(a) \/ isNaN(b) THEN NaN ELSE IF QLt(a, b) THEN b ELSE a
(* Math.floor of a finite number *)
MathFloor(a) == a[1] \div a[2]

SCALE_MIN == QN(1, 10)
SCALE_MAX == Q(5)

(* ------------------------------------------------------------------ *)
(* Sequence helpers (Array.prototype methods used by the code)        *)
(* ------------------------------------------------------------------ *)
Range(s) == {s[i] : i \in DOMAIN s}
Includes(s, v) == \E i \in DOMAIN s : s[i] = v
Slice(s, from, to) ==
  (* s.slice(from, to) with 0-based from (inclusive) and to (exclusive) *)
  IF to <= from THEN <<>> ELSE SubSeq(s, from + 1, IF to > Len(s) THEN Len(s) ELSE to)
Last(s) == s[Len(s)]

(* ------------------------------------------------------------------ *)
(* State                                                              *)
(* ------------------------------------------------------------------ *)
VARIABLES
  (* App component *)
  images,            \* LotteryImage[]
  activeImageId,     \* image id, 0 for null
  winnerCount,
  animationDuration, \* seconds
  isLotteryRunning,
  tempFlasher,       \* <<>> or <<[imageId, cellIndex]>>
  globalWinners,     \* WinnerResult[]
  history,           \* HistoryEntry[]
  future,            \* HistoryEntry[]
  scale,             \* rational
  pan,               \* [x, y] rationals
  isPanningMode,
  (* environment of the App component *)
  alertMsg,          \* text of the last window.alert, "" when none
  nextId,            \* ids handed out by generateId so far
  clock,             \* Date.now(), in milliseconds
  rafQueue,          \* animate closures waiting for requestAnimationFrame
  pendingLoads,      \* files whose Image.onload has not fired yet: [w, h]
  uploadTimers,      \* pending setTimeout(..., 200) callbacks of handleImageUpload
  (* CanvasEditor component *)
  mode,
  activeHandle,      \* "tl" .. "ml", "" for null
  startPos,          \* [x, y] client coordinates
  initialSelection,  \* <<>> or <<Selection>>
  initialPan,        \* <<>> or <<[x, y]>>
  activePointers,    \* Map pointerId -> {x, y}, as a sequence in insertion order
  pinchStartInfo,    \* <<>> or <<[dist, scale, pan, worldPoint]>>
  (* environment of the canvas *)
  pointersDown,      \* pointers physically in contact with the canvas
  drawOrigin         \* observation: <<>> or <<[id, single]>>, the image on which
                     \* the pointer-down began the drawing gesture, and whether
                     \* no other pointer has been down since

appVars == <<images, activeImageId, winnerCount, animationDuration, isLotteryRunning,
             tempFlasher, globalWinners, history, future, scale, pan, isPanningMode>>
envVars == <<alertMsg, nextId, clock, rafQueue, pendingLoads, uploadTimers>>
canvasVars == <<mode, activeHandle, startPos, initialSelection, initialPan,
                activePointers, pinchStartInfo, pointersDown, drawOrigin>>
vars == <<appVars, envVars, canvasVars>>

(* The state after the first render: useState initial values. *)
Init ==
  /\ images = <<>>
  /\ activeImageId = 0
  /\ winnerCount = DEFAULT_WINNER_COUNT
  /\ animationDuration = DEFAULT_ANIMATION_DURATION
  /\ isLotteryRunning = FALSE
  /\ tempFlasher = <<>>
  /\ globalWinners = <<>>
  /\ history = <<>>
  /\ future = <<>>
  /\ scale = Q(1)
  /\ pan = [x |-> Q(0), y |-> Q(0)]
  /\ isPanningMode = FALSE
  /\ alertMsg = ""
  /\ nextId = 0
  /\ clock = 0
  /\ rafQueue = <<>>
  /\ pendingLoads = <<>>
  /\ uploadTimers = 0
  /\ mode = "none"
  /\ activeHandle = ""
  /\ startPos = [x |-> 0, y |-> 0]
  /\ initialSelection = <<>>
  /\ initialPan = <<>>
  /\ activePointers = <<>>
  /\ pinchStartInfo = <<>>
  /\ pointersDown = {}
  /\ drawOrigin = <<>>

(* ------------------------------------------------------------------ *)
(* Pure helpers of App.tsx                                            *)
(* ------------------------------------------------------------------ *)
ImageIds(imgs) == {imgs[i].id : i \in DOMAIN imgs}

(* images.find(img => img.id === id): the index of the first match, 0 if none *)
FindIndex(imgs, id) ==
  IF \E i \in DOMAIN imgs : imgs[i].id = id
  THEN CHOOSE i \in DOMAIN imgs :
         /\ imgs[i].id = id
         /\ \A j \in DOMAIN imgs : imgs[j].id = id => i <= j
  ELSE 0

RECURSIVE SumWidths(_, _)
SumWidths(imgs, n) ==
  IF n = 0 THEN 0 ELSE SumWidths(imgs, n - 1) + imgs[n].naturalWidth + IMAGE_GAP

(* a variant that stacks every image at the world origin *)
getImagesLayoutStacked(imgs) ==
  [i \in DOMAIN imgs |-> imgs[i] @@ [worldX |-> 0, worldY |-> 0]]

(* Layout for the infinite canvas: each image with its world origin. *)
getImagesLayout(imgs) ==
  [i \in DOMAIN imgs |->
     imgs[i] @@ [worldX |-> SumWidths(imgs, i - 1), worldY |-> 0]]

RECURSIVE EligibleUpTo(_, _)
EligibleUpTo(imgs, n) ==
  IF n = 0 THEN 0
  ELSE EligibleUpTo(imgs, n - 1)
       + (IF imgs[n].selection = <<>> THEN 0
          ELSE imgs[n].gridRows * imgs[n].gridCols - Len(imgs[n].excludedCells))

totalEligibleCount(imgs) == EligibleUpTo(imgs, Len(imgs))

(* prev.map(img => img.id === id ? { ...img, ...updates } : img) *)
Merge(img, updates) ==
  [f \in DOMAIN img |-> IF f \in DOMAIN updates THEN updates[f] ELSE img[f]]

onUpdate(imgs, id, updates) ==
  [i \in DOMAIN imgs |-> IF imgs[i].id = id THEN Merge(imgs[i], updates) ELSE imgs[i]]

Entry(imgs, action) == [images |-> imgs, action |-> action]

(* The new log of saveHistory: append, keep the newest HISTORY_CAP entries. *)
SaveHistoryLog(prev, newEntry) ==
  LET newHist == Append(prev, newEntry)
  IN  IF Len(newHist) > HISTORY_CAP
      THEN Slice(newHist, Len(newHist) - HISTORY_CAP, Len(newHist))
      ELSE newHist

(* a variant that leaves the redo stack alone *)
saveHistoryKeepingFuture(action, imgs) ==
  /\ history' = SaveHistoryLog(history, Entry(imgs, action))
  /\ future' = future

saveHistory(action, imgs) ==
  /\ history' = SaveHistoryLog(history, Entry(imgs, action))
  /\ future' = <<>>

(* ------------------------------------------------------------------ *)
(* View helpers                                                       *)
(* ------------------------------------------------------------------ *)
INNER_WIDTH == 1200
INNER_HEIGHT == 880

(* The [scale, pan] that zoomToImage(imgId) sets; the current one when the
   image has no layout. *)
zoomToImage(imgs, imgId) ==
  LET k == FindIndex(imgs, imgId)
      layout == getImagesLayout(imgs)[k]
      isMobile == INNER_WIDTH < 768
      viewW == IF isMobile THEN INNER_WIDTH ELSE INNER_WIDTH - 320
      viewH == IF isMobile THEN INNER_HEIGHT - 64 ELSE INNER_HEIGHT
      padding == 40
      fitScale == MathMin(QN(viewW - padding * 2, layout.naturalWidth),
                          QN(viewH - padding * 2, layout.naturalHeight))
      finalScale == MathMin(MathMax(fitScale, QN(1, 10)), Q(2))
      centerX == QDiv(QSub(Q(viewW), QMul(Q(layout.naturalWidth), finalScale)), Q(2))
      centerY == QDiv(QSub(Q(viewH), QMul(Q(layout.naturalHeight), finalScale)), Q(2))
  IN  IF k = 0 THEN [scale |-> scale, pan |-> pan]
      ELSE [scale |-> finalScale,
            pan |-> [x |-> QSub(centerX, QMul(Q(layout.worldX), finalScale)),
                     y |-> QSub(centerY, QMul(Q(layout.worldY), finalScale))]]

(* useEffect(..., [images.length]): after a render that changed the number of
   images, a single image that is the active one is zoomed to.  An action that
   does not set the view itself ends with this. *)
imagesLengthEffect(newImages, newActive) ==
  IF /\ Len(newImages) # Len(images)
     /\ Len(newImages) = 1
     /\ newActive = newImages[1].id
  THEN /\ scale' = zoomToImage(newImages, newImages[1].id).scale
       /\ pan' = zoomToImage(newImages, newImages[1].id).pan
  ELSE UNCHANGED <<scale, pan>>

(* <CanvasEditor> is rendered only while images.length > 0: when the list
   becomes empty the component unmounts and its state and refs are dropped. *)
canvasMount(newImages) ==
  IF Len(newImages) = 0
  THEN /\ mode' = "none"
       /\ activeHandle' = ""
       /\ startPos' = [x |-> 0, y |-> 0]
       /\ initialSelection' = <<>>
       /\ initialPan' = <<>>
       /\ activePointers' = <<>>
       /\ pinchStartInfo' = <<>>
       /\ drawOrigin' = <<>>
       /\ UNCHANGED pointersDown
  ELSE UNCHANGED canvasVars

lotteryVars == <<isLotteryRunning, tempFlasher, globalWinners>>
settingVars == <<winnerCount, animationDuration, isPanningMode>>

(* ------------------------------------------------------------------ *)
(* History actions                                                    *)
(* ------------------------------------------------------------------ *)
(* a variant that returns to the entry it pops instead of the one before it *)
undoToPopped(hist, fut, imgs) ==
  IF Len(hist) = 0 THEN [history |-> hist, future |-> fut, images |-> imgs]
  ELSE [history |-> SubSeq(hist, 1, Len(hist) - 1),
        future |-> <<Entry(imgs, "state before undo")>> \o fut,
        images |-> Last(hist).images]

(* The log, redo stack and images that undo() leaves. *)
undoResult(hist, fut, imgs) ==
  IF Len(hist) = 0 THEN [history |-> hist, future |-> fut, images |-> imgs]
  ELSE
    LET newHistory == SubSeq(hist, 1, Len(hist) - 1)
    IN  [history |-> newHistory,
         future |-> <<Entry(imgs, "state before undo")>> \o fut,
         images |-> IF Len(newHistory) > 0 THEN Last(newHistory).images ELSE <<>>]

undo ==
  IF Len(history) = 0 THEN UNCHANGED vars
  ELSE
    LET r == undoResult(history, future, images)
    IN  /\ future' = r.future
        /\ images' = r.images
        /\ history' = r.history
        /\ imagesLengthEffect(r.images, activeImageId)
        /\ canvasMount(r.images)
        /\ UNCHANGED <<activeImageId, lotteryVars, settingVars, envVars>>

(* a variant that takes the oldest undone state instead of the newest *)
redoOldest(hist, fut, imgs) ==
  IF Len(fut) = 0 THEN [history |-> hist, future |-> fut, images |-> imgs]
  ELSE [history |-> Append(hist, Entry(Last(fut).images, "redo")),
        future |-> SubSeq(fut, 1, Len(fut) - 1),
        images |-> Last(fut).images]

(* The log, redo stack and images that redo() leaves. *)
redoResult(hist, fut, imgs) ==
  IF Len(fut) = 0 THEN [history |-> hist, future |-> fut, images |-> imgs]
  ELSE
    LET next == fut[1]
    IN  [history |-> Append(hist, Entry(next.images, "redo")),
         future |-> SubSeq(fut, 2, Len(fut)),
         images |-> next.images]

redo ==
  IF Len(future) = 0 THEN UNCHANGED vars
  ELSE
    LET r == redoResult(history, future, images)
    IN  /\ history' = r.history
        /\ images' = r.images
        /\ future' = r.future
        /\ imagesLengthEffect(r.images, activeImageId)
        /\ canvasMount(r.images)
        /\ UNCHANGED <<activeImageId, lotteryVars, settingVars, envVars>>

(* a destructive variant: the log is cut back to the restored entry *)
restoreTruncating(hist, fut, imgs, index) ==
  IF ~(index + 1 \in DOMAIN hist) THEN [history |-> hist, future |-> fut, images |-> imgs]
  ELSE [history |-> SubSeq(hist, 1, index + 1),
        future |-> <<>>,
        images |-> hist[index + 1].images]

(* The log, redo stack and images that restoreHistory(index) leaves; index is
   0-based as in the code. *)
restoreResult(hist, fut, imgs, index) ==
  IF ~(index + 1 \in DOMAIN hist) THEN [history |-> hist, future |-> fut, images |-> imgs]
  ELSE
    LET entry == hist[index + 1]
        newImages == entry.images
    IN  [history |-> Append(hist, Entry(newImages, "restore")),
         future |-> <<>>,
         images |-> newImages]

(* Non-destructive restore *)
restoreHistory(index) ==
  IF ~(index + 1 \in DOMAIN history) THEN UNCHANGED vars
  ELSE
    LET r == restoreResult(history, future, images, index)
    IN  /\ images' = r.images
        /\ history' = r.history
        /\ future' = r.future
        /\ imagesLengthEffect(r.images, activeImageId)
        /\ canvasMount(r.images)
        /\ UNCHANGED <<activeImageId, lotteryVars, settingVars, envVars>>

(* ------------------------------------------------------------------ *)
(* Image list                                                         *)
(* ------------------------------------------------------------------ *)
NewImage(id, w, h) ==
  [id |-> id, naturalWidth |-> w, naturalHeight |-> h, selection |-> <<>>,
   gridRows |-> DEFAULT_GRID_ROWS, gridCols |-> DEFAULT_GRID_COLS,
   excludedCells |-> <<>>, winners |-> <<>>]

(* handleImageUpload: every file starts decoding, one timer is set. *)
handleImageUpload(files) ==
  /\ Len(files) > 0
  /\ pendingLoads' = pendingLoads \o files
  /\ uploadTimers' = uploadTimers + 1
  /\ UNCHANGED <<appVars, alertMsg, nextId, clock, rafQueue, canvasVars>>

(* img.onload of the k-th file still decoding *)
imageOnload(k) ==
  /\ k \in DOMAIN pendingLoads
  /\ LET next == Append(images, NewImage(nextId + 1, pendingLoads[k].w, pendingLoads[k].h))
     IN  /\ images' = next
         /\ imagesLengthEffect(next, activeImageId)
  /\ nextId' = nextId + 1
  /\ pendingLoads' = [i \in 1..(Len(pendingLoads) - 1) |->
                        IF i < k THEN pendingLoads[i] ELSE pendingLoads[i + 1]]
  /\ UNCHANGED <<activeImageId, lotteryVars, settingVars, history, future,
                 alertMsg, clock, rafQueue, uploadTimers, canvasVars>>

(* the setTimeout callback of handleImageUpload *)
uploadTimeout ==
  /\ uploadTimers > 0
  /\ uploadTimers' = uploadTimers - 1
  /\ saveHistory("import images", images)
  /\ activeImageId' = IF Len(images) > 0 THEN Last(images).id ELSE activeImageId
  /\ UNCHANGED <<images, lotteryVars, settingVars, scale, pan,
                 alertMsg, nextId, clock, rafQueue, pendingLoads, canvasVars>>

removeImage(id) ==
  LET next == SelectSeq(images, LAMBDA img : img.id # id)
      newActive == IF activeImageId = id
                   THEN (IF Len(next) > 0 THEN next[1].id ELSE 0)
                   ELSE activeImageId
  IN  /\ images' = next
      /\ saveHistory("remove image", next)
      /\ activeImageId' = newActive
      /\ imagesLengthEffect(next, newActive)
      /\ canvasMount(next)
      /\ UNCHANGED <<lotteryVars, settingVars, envVars>>

(* ImageList onClick *)
handleSelectImage(id) ==
  /\ activeImageId' = id
  /\ scale' = zoomToImage(images, id).scale
  /\ pan' = zoomToImage(images, id).pan
  /\ UNCHANGED <<images, lotteryVars, settingVars, history, future, envVars, canvasVars>>

(* ------------------------------------------------------------------ *)
(* Settings panel                                                     *)
(* ------------------------------------------------------------------ *)
(* The values a NumberControl showing `value` can hand to onChange: the minus
   and plus buttons and the typed, clamped input. *)
NumberControl(value, min, max, typed) ==
  {IF value - 1 < min THEN min ELSE value - 1,
   IF value + 1 > max THEN max ELSE value + 1}
  \cup {IF t < min THEN min ELSE IF t > max THEN max ELSE t : t \in typed}

activeImage == IF FindIndex(images, activeImageId) = 0 THEN <<>>
               ELSE <<images[FindIndex(images, activeImageId)]>>

(* Rows control onChange(val); the section is inert without an active image. *)
setGridRows(val) ==
  /\ activeImage # <<>>
  /\ LET next == [i \in DOMAIN images |->
                    IF images[i].id = activeImageId
                    THEN Merge(images[i], [gridRows |-> val, excludedCells |-> <<>>,
                                           winners |-> <<>>])
                    ELSE images[i]]
     IN  /\ images' = next
         /\ saveHistory("grid rows", next)
  /\ UNCHANGED <<activeImageId, lotteryVars, settingVars, scale, pan, envVars, canvasVars>>

setGridCols(val) ==
  /\ activeImage # <<>>
  /\ LET next == [i \in DOMAIN images |->
                    IF images[i].id = activeImageId
                    THEN Merge(images[i], [gridCols |-> val, excludedCells |-> <<>>,
                                           winners |-> <<>>])
                    ELSE images[i]]
     IN  /\ images' = next
         /\ saveHistory("grid cols", next)
  /\ UNCHANGED <<activeImageId, lotteryVars, settingVars, scale, pan, envVars, canvasVars>>

(* winner count slider and number input; val is an integer >= 1 *)
setWinnerCount(val) ==
  /\ winnerCount' = IF val < 1 THEN 1 ELSE val
  /\ UNCHANGED <<images, activeImageId, animationDuration, isPanningMode, lotteryVars,
                 history, future, scale, pan, envVars, canvasVars>>

setAnimationDuration(val) ==
  /\ animationDuration' = val
  /\ UNCHANGED <<images, activeImageId, winnerCount, isPanningMode, lotteryVars,
                 history, future, scale, pan, envVars, canvasVars>>

(* handleImportConfig, the path on which every step succeeds *)
handleImportConfig(config) ==
  LET restoredImages ==
        [i \in DOMAIN config.images |->
           [id |-> nextId + i,
            naturalWidth |-> config.images[i].naturalWidth,
            naturalHeight |-> config.images[i].naturalHeight,
            selection |-> config.images[i].selection,
            gridRows |-> config.images[i].gridRows,
            gridCols |-> config.images[i].gridCols,
            excludedCells |-> config.images[i].excludedCells,
            winners |-> <<>>]]
      newActive == IF Len(restoredImages) > 0 THEN restoredImages[1].id ELSE 0
  IN  /\ winnerCount' = config.settings.winnerCount
      /\ animationDuration' = config.settings.animationDuration
      /\ images' = restoredImages
      /\ saveHistory("import config", restoredImages)
      /\ activeImageId' = newActive
      /\ globalWinners' = <<>>
      /\ alertMsg' = "import succeeded"
      /\ nextId' = nextId + Len(restoredImages)
      /\ imagesLengthEffect(restoredImages, newActive)
      /\ canvasMount(restoredImages)
      /\ UNCHANGED <<isLotteryRunning, tempFlasher, isPanningMode,
                     clock, rafQueue, pendingLoads, uploadTimers>>

(* A file handed to the import input: the configuration it holds, whether
   the JSON has a version, an images array and a settings object, and whether
   fetching the dataUrl of one of its images fails. *)
ImportFile(config, hasVersion, hasImages, hasSettings, fetchFails) ==
  [config |-> config, hasVersion |-> hasVersion, hasImages |-> hasImages,
   hasSettings |-> hasSettings, fetchFails |-> fetchFails]

(* reader.onload of handleImportConfig: the whole try / catch *)
readerOnload(file) ==
  IF ~file.hasVersion \/ ~file.hasImages \/ ~file.hasSettings
  THEN (* thrown by the format test, or by reading config.settings.winnerCount *)
       /\ alertMsg' = "import failed"
       /\ UNCHANGED <<appVars, nextId, clock, rafQueue, pendingLoads, uploadTimers,
                      canvasVars>>
  ELSE IF file.fetchFails
  THEN (* Promise.all rejects after the settings have been set *)
       /\ winnerCount' = file.config.settings.winnerCount
       /\ animationDuration' = file.config.settings.animationDuration
       /\ alertMsg' = "import failed"
       /\ UNCHANGED <<images, activeImageId, isPanningMode, lotteryVars, history, future,
                      scale, pan, nextId, clock, rafQueue, pendingLoads, uploadTimers,
                      canvasVars>>
  ELSE handleImportConfig(file.config)

(* ------------------------------------------------------------------ *)
(* Draw engine                                                        *)
(* ------------------------------------------------------------------ *)
Swap(arr, i, j) ==
  [k \in DOMAIN arr |-> IF k = i THEN arr[j] ELSE IF k = j THEN arr[i] ELSE arr[k]]

(* The values Math.floor(Math.random() * (i + 1)) can take at each step of the
   Fisher-Yates loop over an array of length n: js[i] in 0..i for i = n-1 .. 1. *)
ShuffleChoices(n) ==
  {js \in [1..(n - 1) -> 0..(n - 1)] : \A i \in 1..(n - 1) : js[i] <= i}

RECURSIVE ShuffleLoop(_, _, _)
ShuffleLoop(arr, i, js) ==
  IF i <= 0 THEN arr ELSE ShuffleLoop(Swap(arr, i + 1, js[i] + 1), i - 1, js)

(* shuffleArray(array) when Math.random yields the choices js *)
shuffleArray(array, js) == ShuffleLoop(array, Len(array) - 1, js)

(* a variant that shuffles the array it is given instead of a copy *)
shuffleArrayInPlace(array, js) ==
  LET arr == ShuffleLoop(array, Len(array) - 1, js)
  IN  [array |-> arr, arr |-> arr]

(* the two arrays after the call shuffleArray(array): the argument, and the
   copy arr = [...array] that the loop swaps in and that is returned *)
shuffleArrayArrays(array, js) ==
  [array |-> array, arr |-> ShuffleLoop(array, Len(array) - 1, js)]

(* the cells one image contributes to the pool *)
PoolOfImage(img, idx) ==
  IF img.selection = <<>> THEN <<>>
  ELSE LET total == img.gridRows * img.gridCols
           cells == [i \in 1..total |-> i - 1]
           kept == SelectSeq(cells, LAMBDA c : ~Includes(img.excludedCells, c))
       IN  [i \in DOMAIN kept |->
              [imageId |-> img.id, cellIndex |-> kept[i], imageIndex |-> idx]]

RECURSIVE PoolUpTo(_, _)
PoolUpTo(imgs, n) ==
  IF n = 0 THEN <<>> ELSE PoolUpTo(imgs, n - 1) \o PoolOfImage(imgs[n], n)

BuildPool(imgs) == PoolUpTo(imgs, Len(imgs))

(* a variant without the entry guard *)
startLotteryUnguarded ==
  /\ images' = [i \in DOMAIN images |-> Merge(images[i], [winners |-> <<>>])]
  /\ globalWinners' = <<>>
  /\ isLotteryRunning' = TRUE
  /\ tempFlasher' = <<>>
  /\ rafQueue' = Append(rafQueue,
                        [pool |-> BuildPool(images),
                         startTime |-> clock,
                         durationMs |-> animationDuration * MS_PER_SECOND,
                         winnerCount |-> winnerCount])
  /\ UNCHANGED <<activeImageId, settingVars, history, future, scale, pan,
                 alertMsg, nextId, clock, pendingLoads, uploadTimers, canvasVars>>

startLottery ==
  IF totalEligibleCount(images) = 0
  THEN /\ alertMsg' = "no eligible participants"
       /\ UNCHANGED <<appVars, nextId, clock, rafQueue, pendingLoads, uploadTimers,
                      canvasVars>>
  ELSE /\ images' = [i \in DOMAIN images |-> Merge(images[i], [winners |-> <<>>])]
       /\ globalWinners' = <<>>
       /\ isLotteryRunning' = TRUE
       /\ tempFlasher' = <<>>
       /\ rafQueue' = Append(rafQueue,
                             [pool |-> BuildPool(images),
                              startTime |-> clock,
                              durationMs |-> animationDuration * MS_PER_SECOND,
                              winnerCount |-> winnerCount])
       /\ UNCHANGED <<activeImageId, settingVars, history, future, scale, pan,
                      alertMsg, nextId, clock, pendingLoads, uploadTimers, canvasVars>>

(* a variant of the button that stays enabled while a draw is running *)
startButtonDisabledWhenEmpty == totalEligibleCount(images) = 0

(* the start button: disabled={isLotteryRunning || totalEligibleCount === 0} *)
startButtonDisabled == isLotteryRunning \/ totalEligibleCount(images) = 0

clickStart == ~startButtonDisabled /\ startLottery

RemoveAt(s, k) == [i \in 1..(Len(s) - 1) |-> IF i < k THEN s[i] ELSE s[i + 1]]

(* a variant that forgets to filter by image *)
WinnersOfAnyImage(winners, id) ==
  [i \in DOMAIN winners |-> winners[i].cellIndex]

WinnersOf(winners, id) ==
  LET mine == SelectSeq(winners, LAMBDA w : w.imageId = id)
  IN  [i \in DOMAIN mine |-> mine[i].cellIndex]

(* a variant whose last frame leaves the flasher on *)
animateKeepingFlasher(k, r, js) ==
  /\ k \in DOMAIN rafQueue
  /\ LET c == rafQueue[k]
     IN  /\ clock - c.startTime >= c.durationMs
         /\ r + 1 \in DOMAIN c.pool
         /\ js \in ShuffleChoices(Len(c.pool))
         /\ tempFlasher' = <<[imageId |-> c.pool[r + 1].imageId,
                              cellIndex |-> c.pool[r + 1].cellIndex]>>
         /\ isLotteryRunning' = FALSE
         /\ rafQueue' = RemoveAt(rafQueue, k)
  /\ UNCHANGED <<images, globalWinners, activeImageId, settingVars, history, future,
                 scale, pan, alertMsg, nextId, clock, pendingLoads, uploadTimers,
                 canvasVars>>

(* a variant whose final shuffle is followed by moving the cell flashed last
   to the front *)
animateFlasherFirst(k, r, js) ==
  /\ k \in DOMAIN rafQueue
  /\ LET c == rafQueue[k]
         elapsed == clock - c.startTime
     IN  IF elapsed < c.durationMs
         THEN /\ r + 1 \in DOMAIN c.pool
              /\ tempFlasher' = <<[imageId |-> c.pool[r + 1].imageId,
                                   cellIndex |-> c.pool[r + 1].cellIndex]>>
              /\ rafQueue' = Append(RemoveAt(rafQueue, k), c)
              /\ UNCHANGED <<images, globalWinners, isLotteryRunning>>
         ELSE /\ js \in ShuffleChoices(Len(c.pool))
              /\ LET shuffled == shuffleArray(c.pool, js)
                     at == {i \in DOMAIN shuffled :
                              /\ tempFlasher # <<>>
                              /\ shuffled[i].imageId = tempFlasher[1].imageId
                              /\ shuffled[i].cellIndex = tempFlasher[1].cellIndex}
                     shuffledPool == IF at = {} THEN shuffled
                                     ELSE Swap(shuffled, 1, CHOOSE i \in at : TRUE)
                     n == IF c.winnerCount < Len(c.pool) THEN c.winnerCount
                          ELSE Len(c.pool)
                     winners == Slice(shuffledPool, 0, n)
                 IN  /\ images' = [i \in DOMAIN images |->
                                    Merge(images[i],
                                          [winners |-> WinnersOf(winners, images[i].id)])]
                     /\ globalWinners' = winners
              /\ tempFlasher' = <<>>
              /\ isLotteryRunning' = FALSE
              /\ rafQueue' = RemoveAt(rafQueue, k)
  /\ UNCHANGED <<activeImageId, settingVars, history, future, scale, pan,
                 alertMsg, nextId, clock, pendingLoads, uploadTimers, canvasVars>>

(* One requestAnimationFrame callback of the k-th waiting animate closure.
   r is the index Math.floor(Math.random() * pool.length), js the choices of
   the final shuffle. *)
animate(k, r, js) ==
  /\ k \in DOMAIN rafQueue
  /\ LET c == rafQueue[k]
         elapsed == clock - c.startTime
     IN  IF elapsed < c.durationMs
         THEN /\ r + 1 \in DOMAIN c.pool
              /\ tempFlasher' = <<[imageId |-> c.pool[r + 1].imageId,
                                   cellIndex |-> c.pool[r + 1].cellIndex]>>
              /\ rafQueue' = Append(RemoveAt(rafQueue, k), c)
              /\ UNCHANGED <<images, globalWinners, isLotteryRunning>>
         ELSE /\ js \in ShuffleChoices(Len(c.pool))
              /\ LET shuffledPool == shuffleArray(c.pool, js)
                     n == IF c.winnerCount < Len(c.pool) THEN c.winnerCount
                          ELSE Len(c.pool)
                     winners == Slice(shuffledPool, 0, n)
                 IN  /\ images' = [i \in DOMAIN images |->
                                    Merge(images[i],
                                          [winners |-> WinnersOf(winners, images[i].id)])]
                     /\ globalWinners' = winners
              /\ tempFlasher' = <<>>
              /\ isLotteryRunning' = FALSE
              /\ rafQueue' = RemoveAt(rafQueue, k)
  /\ UNCHANGED <<activeImageId, settingVars, history, future, scale, pan,
                 alertMsg, nextId, clock, pendingLoads, uploadTimers, canvasVars>>

(* Time passes.  Only animate reads the clock, so it is advanced only while a
   closure is waiting, in whole seconds. *)
advanceClock ==
  /\ rafQueue # <<>>
  /\ clock < MaxSeconds * MS_PER_SECOND
  /\ clock' = clock + MS_PER_SECOND
  /\ UNCHANGED <<appVars, alertMsg, nextId, rafQueue, pendingLoads, uploadTimers,
                 canvasVars>>

(* ------------------------------------------------------------------ *)
(* Toolbar                                                            *)
(* ------------------------------------------------------------------ *)
viewFrame == <<images, activeImageId, lotteryVars, winnerCount, animationDuration,
               history, future, envVars, canvasVars>>

zoomIn ==
  /\ scale' = MathMin(QAdd(scale, QN(5, 100)), Q(5))
  /\ UNCHANGED <<pan, isPanningMode, viewFrame>>

zoomOut ==
  /\ scale' = MathMax(QSub(scale, QN(5, 100)), QN(2, 10))
  /\ UNCHANGED <<pan, isPanningMode, viewFrame>>

(* toolbar reset: zoom to the active image, or the identity view *)
resetButton ==
  /\ IF activeImageId # 0
     THEN /\ scale' = zoomToImage(images, activeImageId).scale
          /\ pan' = zoomToImage(images, activeImageId).pan
     ELSE /\ scale' = Q(1)
          /\ pan' = [x |-> Q(0), y |-> Q(0)]
  /\ UNCHANGED <<isPanningMode, viewFrame>>

(* sidebar "reset view" *)
resetView ==
  /\ scale' = Q(1)
  /\ pan' = [x |-> Q(0), y |-> Q(0)]
  /\ UNCHANGED <<isPanningMode, viewFrame>>

setIsPanningMode(b) ==
  /\ isPanningMode' = b
  /\ UNCHANGED <<scale, pan, viewFrame>>

(* ------------------------------------------------------------------ *)
(* CanvasEditor: geometry                                             *)
(* ------------------------------------------------------------------ *)
(* canvasRef.current.getBoundingClientRect(): the canvas fills its container,
   whose top-left corner is the client origin. *)
RECT_LEFT == 0
RECT_TOP == 0

Point(x, y) == [x |-> x, y |-> y]

(* a variant that forgets the view scale *)
getWorldPosUnscaled(cx, cy) ==
  Point(QSub(Q(cx - RECT_LEFT), pan.x), QSub(Q(cy - RECT_TOP), pan.y))

(* getWorldPos(e) for an event at client (cx, cy) *)
getWorldPos(cx, cy) ==
  LET screenX == cx - RECT_LEFT
      screenY == cy - RECT_TOP
  IN  Point(QDiv(QSub(Q(screenX), pan.x), scale), QDiv(QSub(Q(screenY), pan.y), scale))

(* render: ctx.translate(pan.x, pan.y); ctx.scale(scale, scale) takes the world
   point (wx, wy) to this canvas point *)
worldToScreen(wx, wy) ==
  Point(QAdd(QMul(wx, scale), pan.x), QAdd(QMul(wy, scale), pan.y))

(* render: the canvas rectangle that fillRect(cx, cy, cellW, cellH) paints for
   cell idx of a layout with a selection *)
paintedCell(layout, idx) ==
  LET sel == layout.selection[1]
      cellW == QDiv(sel.w, Q(layout.gridCols))
      cellH == QDiv(sel.h, Q(layout.gridRows))
      r == idx \div layout.gridCols
      c == idx % layout.gridCols
      cx == QAdd(QAdd(Q(layout.worldX), sel.x), QMul(Q(c), cellW))
      cy == QAdd(QAdd(Q(layout.worldY), sel.y), QMul(Q(r), cellH))
      tl == worldToScreen(cx, cy)
      br == worldToScreen(QAdd(cx, cellW), QAdd(cy, cellH))
  IN  [left |-> tl.x, top |-> tl.y, right |-> br.x, bottom |-> br.y]

(* imageLayouts.find(...): index of the first layout under the world point, 0 if none *)
getImageAtWorldPos(layouts, wx, wy) ==
  LET hit(l) == /\ QLe(Q(l.worldX), wx) /\ QLe(wx, Q(l.worldX + l.naturalWidth))
                /\ QLe(Q(l.worldY), wy) /\ QLe(wy, Q(l.worldY + l.naturalHeight))
  IN  IF \E i \in DOMAIN layouts : hit(layouts[i])
      THEN CHOOSE i \in DOMAIN layouts :
             hit(layouts[i]) /\ \A j \in DOMAIN layouts : hit(layouts[j]) => i <= j
      ELSE 0

isPointInSelection(wx, wy, layout) ==
  IF layout.selection = <<>> THEN FALSE
  ELSE LET lx == QSub(wx, Q(layout.worldX))
           ly == QSub(wy, Q(layout.worldY))
           sel == layout.selection[1]
       IN  /\ QLe(sel.x, lx) /\ QLe(lx, QAdd(sel.x, sel.w))
           /\ QLe(sel.y, ly) /\ QLe(ly, QAdd(sel.y, sel.h))

(* the resize handle under the world point, "" for null *)
getHandle(wx, wy, layout) ==
  IF layout.selection = <<>> THEN ""
  ELSE
    LET lx == QSub(wx, Q(layout.worldX))
        ly == QSub(wy, Q(layout.worldY))
        sel == layout.selection[1]
        x == sel.x
        y == sel.y
        w == sel.w
        h == sel.h
        r == QDiv(Q(HANDLE_SIZE), scale)
        near(a, b) == QLt(MathAbs(QSub(a, b)), r)
        half(a) == QDiv(a, Q(2))
    IN  IF near(lx, x) /\ near(ly, y) THEN "tl"
        ELSE IF near(lx, QAdd(x, w)) /\ near(ly, y) THEN "tr"
        ELSE IF near(lx, QAdd(x, w)) /\ near(ly, QAdd(y, h)) THEN "br"
        ELSE IF near(lx, x) /\ near(ly, QAdd(y, h)) THEN "bl"
        ELSE IF near(lx, QAdd(x, half(w))) /\ near(ly, y) THEN "tm"
        ELSE IF near(lx, QAdd(x, w)) /\ near(ly, QAdd(y, half(h))) THEN "mr"
        ELSE IF near(lx, QAdd(x, half(w))) /\ near(ly, QAdd(y, h)) THEN "bm"
        ELSE IF near(lx, x) /\ near(ly, QAdd(y, half(h))) THEN "ml"
        ELSE ""

(* activeHandle.includes(c) *)
HandleIncludes(handle, c) ==
  CASE c = "l" -> handle \in {"tl", "bl", "ml"}
    [] c = "r" -> handle \in {"tr", "br", "mr"}
    [] c = "t" -> handle \in {"tl", "tm", "tr"}
    [] c = "b" -> handle \in {"bl", "bm", "br"}

(* Map.set / Map.delete on activePointers, kept in insertion order *)
HasPointer(ap, id) == \E i \in DOMAIN ap : ap[i].id = id
SetPointer(ap, id, cx, cy) ==
  IF HasPointer(ap, id)
  THEN [i \in DOMAIN ap |-> IF ap[i].id = id THEN [id |-> id, x |-> cx, y |-> cy] ELSE ap[i]]
  ELSE Append(ap, [id |-> id, x |-> cx, y |-> cy])
DeletePointer(ap, id) == SelectSeq(ap, LAMBDA q : q.id # id)

(* Math.hypot(dx, dy) is kept as its square, an integer. *)
HypotSq(dx, dy) == dx * dx + dy * dy

RECURSIVE ISqrtIn(_, _, _)
ISqrtIn(n, lo, hi) ==
  (* the largest r in lo..hi with r * r <= n *)
  IF lo >= hi THEN lo
  ELSE LET mid == (lo + hi + 1) \div 2
       IN  IF mid * mid <= n THEN ISqrtIn(n, mid, hi) ELSE ISqrtIn(n, lo, mid - 1)
ISqrt(n) == ISqrtIn(n, 0, IF n < 46340 THEN n ELSE 46340)
IsSquare(n) == ISqrt(n) * ISqrt(n) = n

(* dist / pinchStartInfo.dist has an exact value when the quotient of the
   squares is the square of a rational. *)
RatioExact(distSq, startSq) ==
  /\ startSq > 0
  /\ IsSquare(QN(distSq, startSq)[1]) /\ IsSquare(QN(distSq, startSq)[2])
HypotRatio(distSq, startSq) ==
  QN(ISqrt(QN(distSq, startSq)[1]), ISqrt(QN(distSq, startSq)[2]))

activeLayoutIndex == FindIndex(images, activeImageId)

Normalize(sel) ==
  [x |-> IF QLt(sel.w, Q(0)) THEN QAdd(sel.x, sel.w) ELSE sel.x,
   y |-> IF QLt(sel.h, Q(0)) THEN QAdd(sel.y, sel.h) ELSE sel.y,
   w |-> MathAbs(sel.w),
   h |-> MathAbs(sel.h)]

canvasState == <<mode, activeHandle, startPos, initialSelection, initialPan>>

(* ------------------------------------------------------------------ *)
(* CanvasEditor: pointer handlers                                     *)
(* ------------------------------------------------------------------ *)
(* Which return of handlePointerDown an event at client (cx, cy) takes.
   panKey: e.button === 1 || e.shiftKey. *)
DownBranch(p, cx, cy, panKey) ==
  LET ap == SetPointer(activePointers, p, cx, cy)
      w == getWorldPos(cx, cy)
      layouts == getImagesLayout(images)
      k == activeLayoutIndex
  IN  IF Len(ap) = 2 THEN "pinch"
      ELSE IF isPanningMode \/ panKey THEN "panning"
      ELSE IF isLotteryRunning THEN "running"
      ELSE IF /\ k # 0
              /\ layouts[k].selection # <<>>
              /\ getHandle(w.x, w.y, layouts[k]) # "" THEN "resizing"
      ELSE IF /\ k # 0
              /\ layouts[k].selection # <<>>
              /\ isPointInSelection(w.x, w.y, layouts[k]) THEN "moving"
      ELSE IF getImageAtWorldPos(layouts, w.x, w.y) # 0 THEN "drawing"
      ELSE "empty"

handlePointerDown(p, cx, cy, panKey) ==
  LET ap == SetPointer(activePointers, p, cx, cy)
      branch == DownBranch(p, cx, cy, panKey)
      w == getWorldPos(cx, cy)
      layouts == getImagesLayout(images)
      k == activeLayoutIndex
  IN
  /\ activePointers' = ap
  /\ CASE branch = "pinch" ->
            LET p1 == ap[1]
                p2 == ap[2]
                mx == QN(p1.x + p2.x, 2)
                my == QN(p1.y + p2.y, 2)
                screenX == QSub(mx, Q(RECT_LEFT))
                screenY == QSub(my, Q(RECT_TOP))
            IN  /\ pinchStartInfo' =
                     <<[distSq |-> HypotSq(p1.x - p2.x, p1.y - p2.y),
                        scale |-> scale,
                        pan |-> pan,
                        worldPoint |-> Point(QDiv(QSub(screenX, pan.x), scale),
                                             QDiv(QSub(screenY, pan.y), scale))]>>
                /\ UNCHANGED <<canvasState, images, activeImageId, history, future,
                               scale, pan>>
       [] branch \in {"panning", "empty"} ->
            /\ mode' = "panning"
            /\ startPos' = Point(cx, cy)
            /\ initialPan' = <<pan>>
            /\ UNCHANGED <<activeHandle, initialSelection, pinchStartInfo, images,
                           activeImageId, history, future, scale, pan>>
       [] branch = "running" ->
            UNCHANGED <<canvasState, pinchStartInfo, images, activeImageId, history,
                        future, scale, pan>>
       [] branch = "resizing" ->
            /\ startPos' = Point(cx, cy)
            /\ mode' = "resizing"
            /\ activeHandle' = getHandle(w.x, w.y, layouts[k])
            /\ initialSelection' = layouts[k].selection
            /\ saveHistory("resize selection", images)
            /\ UNCHANGED <<initialPan, pinchStartInfo, images, activeImageId, scale, pan>>
       [] branch = "moving" ->
            /\ startPos' = Point(cx, cy)
            /\ mode' = "moving"
            /\ initialSelection' = layouts[k].selection
            /\ saveHistory("move selection", images)
            /\ UNCHANGED <<activeHandle, initialPan, pinchStartInfo, images,
                           activeImageId, scale, pan>>
       [] branch = "drawing" ->
            LET clickedImage == layouts[getImageAtWorldPos(layouts, w.x, w.y)]
                lx == QSub(w.x, Q(clickedImage.worldX))
                ly == QSub(w.y, Q(clickedImage.worldY))
            IN  /\ startPos' = Point(cx, cy)
                /\ IF clickedImage.id # activeImageId
                   THEN (* onSelectImage = handleSelectImage *)
                        /\ activeImageId' = clickedImage.id
                        /\ scale' = zoomToImage(images, clickedImage.id).scale
                        /\ pan' = zoomToImage(images, clickedImage.id).pan
                   ELSE UNCHANGED <<activeImageId, scale, pan>>
                /\ mode' = "drawing"
                /\ saveHistory("create selection", images)
                /\ images' = onUpdate(images, clickedImage.id,
                                      [selection |-> <<[x |-> lx, y |-> ly,
                                                        w |-> Q(0), h |-> Q(0)]>>,
                                       excludedCells |-> <<>>,
                                       winners |-> <<>>])
                /\ UNCHANGED <<activeHandle, initialSelection, initialPan,
                               pinchStartInfo>>
  /\ UNCHANGED <<lotteryVars, settingVars, envVars>>

(* which branch of handlePointerMove an event takes *)
MoveBranch(p, cx, cy) ==
  LET ap == SetPointer(activePointers, p, cx, cy)
      k == activeLayoutIndex
  IN  IF Len(ap) = 2 /\ pinchStartInfo # <<>> THEN "pinch"
      ELSE IF mode = "panning" /\ initialPan # <<>> THEN "panning"
      ELSE IF k = 0 THEN "none"
      ELSE IF mode = "drawing" /\ images[k].selection # <<>> THEN "drawing"
      ELSE IF mode = "moving" /\ initialSelection # <<>> THEN "moving"
      ELSE IF mode = "resizing" /\ initialSelection # <<>> /\ activeHandle # ""
           THEN "resizing"
      ELSE "none"

(* dist / pinchStartInfo.dist: Infinity over a zero start distance, NaN when
   both distances are zero *)
scaleRatio(distSq, startSq) ==
  IF startSq = 0 THEN (IF distSq = 0 THEN NaN ELSE QN(1, 0))
  ELSE HypotRatio(distSq, startSq)

(* newScale of a pinch frame *)
PinchScale(distSq, info) ==
  MathMin(MathMax(QMul(info.scale, scaleRatio(distSq, info.distSq)), SCALE_MIN), SCALE_MAX)

(* the frames whose scale ratio this model can represent: a rational ratio,
   Infinity or NaN *)
PinchRepresentable(p, cx, cy) ==
  LET ap == SetPointer(activePointers, p, cx, cy)
  IN  MoveBranch(p, cx, cy) = "pinch" =>
        LET distSq == HypotSq(ap[1].x - ap[2].x, ap[1].y - ap[2].y)
        IN  \/ pinchStartInfo[1].distSq = 0
            \/ RatioExact(distSq, pinchStartInfo[1].distSq)

(* the selection a moving frame writes *)
MovedSelection(layout, cx, cy) ==
  LET s0 == initialSelection[1]
      dx == QDiv(Q(cx - startPos.x), scale)
      dy == QDiv(Q(cy - startPos.y), scale)
      newX == MathMax(Q(0), MathMin(QAdd(s0.x, dx), QSub(Q(layout.naturalWidth), s0.w)))
      newY == MathMax(Q(0), MathMin(QAdd(s0.y, dy), QSub(Q(layout.naturalHeight), s0.h)))
  IN  [x |-> newX, y |-> newY, w |-> s0.w, h |-> s0.h]

(* a variant that writes a negative extent instead of flipping *)
ResizedSelectionUnflipped(cx, cy) ==
  LET s0 == initialSelection[1]
      dx == QDiv(Q(cx - startPos.x), scale)
      dy == QDiv(Q(cy - startPos.y), scale)
      l == HandleIncludes(activeHandle, "l")
      r == HandleIncludes(activeHandle, "r")
      t == HandleIncludes(activeHandle, "t")
      b == HandleIncludes(activeHandle, "b")
  IN  [x |-> IF l THEN QAdd(s0.x, dx) ELSE s0.x,
       y |-> IF t THEN QAdd(s0.y, dy) ELSE s0.y,
       w |-> IF l THEN QSub(s0.w, dx) ELSE IF r THEN QAdd(s0.w, dx) ELSE s0.w,
       h |-> IF t THEN QSub(s0.h, dy) ELSE IF b THEN QAdd(s0.h, dy) ELSE s0.h]

(* a variant that takes the screen delta for the delta in image pixels *)
ResizedSelectionByScreenDelta(cx, cy) ==
  LET s0 == initialSelection[1]
      dx == Q(cx - startPos.x)
      dy == Q(cy - startPos.y)
      l == HandleIncludes(activeHandle, "l")
      r == HandleIncludes(activeHandle, "r")
      t == HandleIncludes(activeHandle, "t")
      b == HandleIncludes(activeHandle, "b")
  IN  Normalize([x |-> IF l THEN QAdd(s0.x, dx) ELSE s0.x,
                 y |-> IF t THEN QAdd(s0.y, dy) ELSE s0.y,
                 w |-> IF l THEN QSub(s0.w, dx) ELSE IF r THEN QAdd(s0.w, dx) ELSE s0.w,
                 h |-> IF t THEN QSub(s0.h, dy) ELSE IF b THEN QAdd(s0.h, dy) ELSE s0.h])

(* the selection a resizing frame writes *)
ResizedSelection(cx, cy) ==
  LET s0 == initialSelection[1]
      dx == QDiv(Q(cx - startPos.x), scale)
      dy == QDiv(Q(cy - startPos.y), scale)
      x1 == IF HandleIncludes(activeHandle, "l") THEN QAdd(s0.x, dx) ELSE s0.x
      w1 == IF HandleIncludes(activeHandle, "l") THEN QSub(s0.w, dx) ELSE s0.w
      w2 == IF HandleIncludes(activeHandle, "r") THEN QAdd(w1, dx) ELSE w1
      y1 == IF HandleIncludes(activeHandle, "t") THEN QAdd(s0.y, dy) ELSE s0.y
      h1 == IF HandleIncludes(activeHandle, "t") THEN QSub(s0.h, dy) ELSE s0.h
      h2 == IF HandleIncludes(activeHandle, "b") THEN QAdd(h1, dy) ELSE h1
  IN  [x |-> IF QLt(w2, Q(0)) THEN QAdd(x1, w2) ELSE x1,
       y |-> IF QLt(h2, Q(0)) THEN QAdd(y1, h2) ELSE y1,
       w |-> IF QLt(w2, Q(0)) THEN MathAbs(w2) ELSE w2,
       h |-> IF QLt(h2, Q(0)) THEN MathAbs(h2) ELSE h2]

(* the onUpdate a moving or resizing frame makes first: results are cleared
   only when some cell is excluded *)
ClearResults(imgs, layout) ==
  IF Len(layout.excludedCells) > 0
  THEN onUpdate(imgs, layout.id, [excludedCells |-> <<>>, winners |-> <<>>])
  ELSE imgs

handlePointerMove(p, cx, cy) ==
  LET ap == SetPointer(activePointers, p, cx, cy)
      branch == MoveBranch(p, cx, cy)
      w == getWorldPos(cx, cy)
      layouts == getImagesLayout(images)
      k == activeLayoutIndex
  IN
  /\ activePointers' = ap
  /\ CASE branch = "pinch" ->
            LET info == pinchStartInfo[1]
                p1 == ap[1]
                p2 == ap[2]
                distSq == HypotSq(p1.x - p2.x, p1.y - p2.y)
                newScale == PinchScale(distSq, info)
                screenX == QSub(QN(p1.x + p2.x, 2), Q(RECT_LEFT))
                screenY == QSub(QN(p1.y + p2.y, 2), Q(RECT_TOP))
            IN  /\ scale' = newScale
                /\ pan' = Point(QSub(screenX, QMul(info.worldPoint.x, newScale)),
                                QSub(screenY, QMul(info.worldPoint.y, newScale)))
                /\ UNCHANGED images
       [] branch = "panning" ->
            /\ pan' = Point(QAdd(initialPan[1].x, Q(cx - startPos.x)),
                            QAdd(initialPan[1].y, Q(cy - startPos.y)))
            /\ UNCHANGED <<scale, images>>
       [] branch = "none" ->
            UNCHANGED <<scale, pan, images>>
       [] branch = "drawing" ->
            LET sel == layouts[k].selection[1]
                lx == QSub(w.x, Q(layouts[k].worldX))
                ly == QSub(w.y, Q(layouts[k].worldY))
            IN  /\ images' = onUpdate(images, layouts[k].id,
                                      [selection |-> <<[x |-> sel.x, y |-> sel.y,
                                                        w |-> QSub(lx, sel.x),
                                                        h |-> QSub(ly, sel.y)]>>])
                /\ UNCHANGED <<scale, pan>>
       [] branch = "moving" ->
            /\ images' = onUpdate(ClearResults(images, layouts[k]), layouts[k].id,
                                  [selection |-> <<MovedSelection(layouts[k], cx, cy)>>])
            /\ UNCHANGED <<scale, pan>>
       [] branch = "resizing" ->
            /\ images' = onUpdate(ClearResults(images, layouts[k]), layouts[k].id,
                                  [selection |-> <<ResizedSelection(cx, cy)>>])
            /\ UNCHANGED <<scale, pan>>
  /\ UNCHANGED <<canvasState, pinchStartInfo, activeImageId, history, future,
                 lotteryVars, settingVars, envVars>>

(* a variant whose range test admits the right and bottom boundary *)
CellUnderInclusive(layout, cx, cy) ==
  IF layout.selection = <<>> THEN <<>>
  ELSE
    LET w == getWorldPos(cx, cy)
        sel == layout.selection[1]
        rx == QSub(QSub(w.x, Q(layout.worldX)), sel.x)
        ry == QSub(QSub(w.y, Q(layout.worldY)), sel.y)
        cellW == QDiv(sel.w, Q(layout.gridCols))
        cellH == QDiv(sel.h, Q(layout.gridRows))
    IN  IF ~isFinite(QDiv(rx, cellW)) \/ ~isFinite(QDiv(ry, cellH))
        THEN <<>>  \* Math.floor keeps Infinity and NaN, which fail the range test
        ELSE LET col == MathFloor(QDiv(rx, cellW))
                 row == MathFloor(QDiv(ry, cellH))
             IN  IF col >= 0 /\ col <= layout.gridCols /\ row >= 0 /\ row <= layout.gridRows
                 THEN <<row * layout.gridCols + col>>
                 ELSE <<>>

(* handleCellClick: the index of the cell under the event, <<>> when the
   computed (row, col) lies outside the grid *)
CellUnder(layout, cx, cy) ==
  IF layout.selection = <<>> THEN <<>>
  ELSE
    LET w == getWorldPos(cx, cy)
        sel == layout.selection[1]
        rx == QSub(QSub(w.x, Q(layout.worldX)), sel.x)
        ry == QSub(QSub(w.y, Q(layout.worldY)), sel.y)
        cellW == QDiv(sel.w, Q(layout.gridCols))
        cellH == QDiv(sel.h, Q(layout.gridRows))
    IN  IF ~isFinite(QDiv(rx, cellW)) \/ ~isFinite(QDiv(ry, cellH))
        THEN <<>>  \* Math.floor keeps Infinity and NaN, which fail the range test
        ELSE LET col == MathFloor(QDiv(rx, cellW))
                 row == MathFloor(QDiv(ry, cellH))
             IN  IF col >= 0 /\ col < layout.gridCols /\ row >= 0 /\ row < layout.gridRows
                 THEN <<row * layout.gridCols + col>>
                 ELSE <<>>

(* a variant that excludes without looking whether the cell already is *)
ToggleExcludedAppending(excludedCells, idx) ==
  Append(excludedCells, idx)

ToggleExcluded(excludedCells, idx) ==
  IF Includes(excludedCells, idx)
  THEN SelectSeq(excludedCells, LAMBDA i : i # idx)
  ELSE Append(excludedCells, idx)

(* the selection handlePointerUp commits for the active layout *)
CommittedSelection(layout) ==
  LET normSel == Normalize(layout.selection[1])
  IN  IF /\ mode = "drawing"
         /\ (QLt(normSel.w, Q(MIN_SELECTION_SIZE)) \/ QLt(normSel.h, Q(MIN_SELECTION_SIZE)))
      THEN <<>>
      ELSE IF mode # "none" /\ mode # "panning" THEN <<normSel>>
      ELSE layout.selection

handlePointerUp(p, cx, cy) ==
  LET ap == DeletePointer(activePointers, p)
      layouts == getImagesLayout(images)
      k == activeLayoutIndex
  IN
  /\ activePointers' = ap
  /\ pinchStartInfo' = IF Len(ap) < 2 THEN <<>> ELSE pinchStartInfo
  /\ IF Len(ap) > 0
     THEN UNCHANGED <<canvasState, images, history, future>>
     ELSE
       /\ IF k # 0 /\ layouts[k].selection # <<>>
          THEN LET committed == onUpdate(images, layouts[k].id,
                                         [selection |-> CommittedSelection(layouts[k])])
                   isClick == /\ mode = "moving"
                              /\ HypotSq(cx - startPos.x, cy - startPos.y)
                                   < DRAG_THRESHOLD * DRAG_THRESHOLD
                   cell == CellUnder(layouts[k], cx, cy)
               IN  IF isClick /\ cell # <<>>
                   THEN /\ saveHistory("toggle cell", images)
                        /\ images' = onUpdate(committed, layouts[k].id,
                                              [excludedCells |->
                                                 ToggleExcluded(layouts[k].excludedCells,
                                                                cell[1])])
                   ELSE /\ images' = committed
                        /\ UNCHANGED <<history, future>>
          ELSE UNCHANGED <<images, history, future>>
       /\ mode' = "none"
       /\ activeHandle' = ""
       /\ initialSelection' = <<>>
       /\ initialPan' = <<>>
       /\ UNCHANGED startPos
  /\ UNCHANGED <<activeImageId, scale, pan, lotteryVars, settingVars, envVars>>

(* ------------------------------------------------------------------ *)
(* Pointer events as the browser delivers them to the canvas         *)
(* ------------------------------------------------------------------ *)
TrackedAt(p, cx, cy) ==
  \E i \in DOMAIN activePointers :
    activePointers[i].id = p /\ activePointers[i].x = cx /\ activePointers[i].y = cy

(* the local point of image `id` under client (cx, cy) in the current view *)
LocalPoint(id, cx, cy) ==
  LET l == getImagesLayout(images)[FindIndex(images, id)]
      w == getWorldPos(cx, cy)
  IN  Point(QSub(w.x, Q(l.worldX)), QSub(w.y, Q(l.worldY)))

PointerDown(p, cx, cy, panKey) ==
  /\ Len(images) > 0
  /\ p \notin pointersDown
  /\ handlePointerDown(p, cx, cy, panKey)
  /\ pointersDown' = pointersDown \cup {p}
  /\ drawOrigin' =
       IF DownBranch(p, cx, cy, panKey) = "drawing"
       THEN LET layouts == getImagesLayout(images)
                w == getWorldPos(cx, cy)
                id == layouts[getImageAtWorldPos(layouts, w.x, w.y)].id
            IN  <<[id |-> id, single |-> pointersDown = {}]>>
       ELSE IF drawOrigin # <<>>
            THEN <<[drawOrigin[1] EXCEPT !.single = FALSE]>>
            ELSE <<>>

(* a pointermove of a pointer that is down, to a new position *)
PointerMove(p, cx, cy) ==
  /\ Len(images) > 0
  /\ p \in pointersDown
  /\ ~TrackedAt(p, cx, cy)
  /\ PinchRepresentable(p, cx, cy)
  /\ handlePointerMove(p, cx, cy)
  /\ UNCHANGED <<pointersDown, drawOrigin>>

(* pointerup (or pointerleave) at the pointer's last position *)
PointerUp(p, cx, cy) ==
  /\ p \in pointersDown
  /\ HasPointer(activePointers, p) => TrackedAt(p, cx, cy)
  /\ pointersDown' = pointersDown \ {p}
  /\ IF Len(images) > 0
     THEN /\ handlePointerUp(p, cx, cy)
          /\ drawOrigin' = IF Len(DeletePointer(activePointers, p)) = 0 THEN <<>>
                           ELSE drawOrigin
     ELSE UNCHANGED <<appVars, envVars, canvasState, activePointers, pinchStartInfo,
                      drawOrigin>>

(* a pointermove of a pointer that is over the canvas without being pressed, a
   mouse that hovers: onPointerMove is called for it all the same *)
PointerHover(p, cx, cy) ==
  /\ Len(images) > 0
  /\ p \notin pointersDown
  /\ ~TrackedAt(p, cx, cy)
  /\ PinchRepresentable(p, cx, cy)
  /\ handlePointerMove(p, cx, cy)
  /\ UNCHANGED <<pointersDown, drawOrigin>>

(* the pointerleave of a hovering pointer that moves off the canvas *)
PointerLeave(p, cx, cy) ==
  /\ Len(images) > 0
  /\ p \notin pointersDown
  /\ TrackedAt(p, cx, cy)
  /\ handlePointerUp(p, cx, cy)
  /\ drawOrigin' = IF Len(DeletePointer(activePointers, p)) = 0 THEN <<>> ELSE drawOrigin
  /\ UNCHANGED pointersDown

(* ------------------------------------------------------------------ *)
(* Inputs                                                             *)
(* ------------------------------------------------------------------ *)
Rect(x, y, w, h) == [x |-> Q(x), y |-> Q(y), w |-> Q(w), h |-> Q(h)]

(* one image record of a configuration file *)
ImageData(w, h, selection, rows, cols, excluded) ==
  [naturalWidth |-> w, naturalHeight |-> h, selection |-> selection,
   gridRows |-> rows, gridCols |-> cols, excludedCells |-> excluded]

Config(imgs, count, seconds) ==
  [images |-> imgs, settings |-> [winnerCount |-> count, animationDuration |-> seconds]]

(* the view the program gives the active image *)
ViewIsHome ==
  /\ scale = zoomToImage(images, activeImageId).scale
  /\ pan = zoomToImage(images, activeImageId).pan

(* Every specification loads one configuration file into the app as it
   starts: generateId has handed out no id yet. *)

(* ------------------------------------------------------------------ *)
(* Specification of the pointer gestures on one image                 *)
(* ------------------------------------------------------------------ *)
GestureConfigs == {Config(<<ImageData(800, 800, <<>>, 1, 2, <<>>)>>, 1, 1)}

(* client points: with the home view of an 800 x 800 image (scale 1, pan
   (40, 40)) they are the local points (60, 60) and (80, 80) *)
GesturePoints == {<<100, 100>>, <<120, 120>>}

GestureLoad ==
  /\ nextId = 0
  /\ \E config \in GestureConfigs : handleImportConfig(config)

(* Pointer ids are only keys of activePointers: a new pointer takes the
   smallest id that is not down. *)
FreshPointer(p) ==
  /\ p \in 1..MaxPointers
  /\ p \notin pointersDown
  /\ \A q \in 1..(p - 1) : q \in pointersDown

GestureDown ==
  /\ Len(history) < MaxHist
  /\ ViewIsHome
  /\ \E p \in 1..MaxPointers, pt \in GesturePoints, panKey \in BOOLEAN :
       FreshPointer(p) /\ PointerDown(p, pt[1], pt[2], panKey)

GestureMove ==
  \E p \in 1..MaxPointers, pt \in GesturePoints : PointerMove(p, pt[1], pt[2])

GestureUp ==
  \E p \in 1..MaxPointers, pt \in GesturePoints : PointerUp(p, pt[1], pt[2])

NextGesture == GestureLoad \/ GestureDown \/ GestureMove \/ GestureUp

SpecGesture == Init /\ [][NextGesture]_vars

(* ------------------------------------------------------------------ *)
(* Specification of drawing a selection                               *)
(* ------------------------------------------------------------------ *)
(* one large image, zoomed to as it loads; two small images side by side,
   shown in the initial view, the second at world x = 400 *)
DrawConfigs ==
  {Config(<<ImageData(800, 800, <<>>, 1, 2, <<>>)>>, 1, 1),
   Config(<<ImageData(300, 300, <<>>, 1, 2, <<>>),
            ImageData(300, 300, <<>>, 1, 2, <<>>)>>, 1, 1)}

DrawLoad ==
  /\ nextId = 0
  /\ \E config \in DrawConfigs : handleImportConfig(config)

(* three points whose differences take every combination of signs, and two
   points 5 apart that lie on the second of the two small images *)
DrawPoints == {<<100, 100>>, <<120, 120>>, <<120, 80>>, <<500, 100>>, <<505, 105>>}

(* the view is one the program chose: the initial one or the active image's *)
ViewIsInitial == scale = Q(1) /\ pan = Point(Q(0), Q(0))

DrawDown ==
  /\ Len(history) < MaxHist
  /\ ViewIsHome \/ ViewIsInitial
  /\ \E p \in 1..DrawPointers, pt \in DrawPoints :
       /\ p \notin pointersDown
       /\ \A q \in 1..(p - 1) : q \in pointersDown
       /\ PointerDown(p, pt[1], pt[2], FALSE)

DrawMove ==
  \E p \in 1..DrawPointers, pt \in DrawPoints : PointerMove(p, pt[1], pt[2])

DrawUp ==
  \E p \in 1..DrawPointers, pt \in DrawPoints : PointerUp(p, pt[1], pt[2])

NextDraw == DrawLoad \/ DrawDown \/ DrawMove \/ DrawUp

SpecDraw == Init /\ [][NextDraw]_vars

(* ------------------------------------------------------------------ *)
(* Specification of the draw engine                                   *)
(* ------------------------------------------------------------------ *)
(* one image of two cells; two images with three eligible cells, cell 1 of
   the first excluded; an image without a selection; an image whose cells
   are all excluded *)
LotteryConfigs ==
  {Config(<<ImageData(800, 800, <<Rect(60, 60, 40, 40)>>, 1, 2, <<>>)>>, 1, 1),
   Config(<<ImageData(800, 800, <<Rect(60, 60, 40, 40)>>, 1, 2, <<1>>),
            ImageData(800, 800, <<Rect(60, 60, 40, 40)>>, 2, 1, <<>>)>>, 2, 1),
   Config(<<ImageData(800, 800, <<>>, 1, 2, <<>>)>>, 1, 1),
   Config(<<ImageData(800, 800, <<Rect(60, 60, 40, 40)>>, 1, 2, <<0, 1>>)>>, 1, 1)}

LotteryLoad ==
  /\ nextId = 0
  /\ \E config \in LotteryConfigs : handleImportConfig(config)

(* parseInt of the text typed into the winner count input *)
TypeWinnerCount == \E typed \in 0..MaxWinnerCount : setWinnerCount(typed)

(* a draw request reaches startLottery; at most MaxDraws tick loops at a time *)
RequestDraw == Len(rafQueue) < MaxDraws /\ startLottery

Tick ==
  \E k \in DOMAIN rafQueue :
    \E r \in 0..(Len(rafQueue[k].pool) - 1), js \in ShuffleChoices(Len(rafQueue[k].pool)) :
      animate(k, r, js)

NextLottery == LotteryLoad \/ TypeWinnerCount \/ RequestDraw \/ Tick \/ advanceClock

SpecLottery == Init /\ [][NextLottery]_vars

(* ------------------------------------------------------------------ *)
(* Specification of the history log                                   *)
(* ------------------------------------------------------------------ *)
HistoryConfigs ==
  {Config(<<ImageData(800, 800, <<Rect(60, 60, 40, 40)>>, 1, 2, <<1>>)>>, 1, 1)}

HistoryLoad ==
  /\ nextId = 0
  /\ \E config \in HistoryConfigs : handleImportConfig(config)

(* the minus and plus buttons of the rows and columns controls *)
GridRows ==
  /\ activeImage # <<>>
  /\ Len(history) < MaxLog
  /\ \E val \in NumberControl(activeImage[1].gridRows, GRID_MIN, GRID_MAX, {}) :
       val <= MaxGrid /\ setGridRows(val)

GridCols ==
  /\ activeImage # <<>>
  /\ Len(history) < MaxLog
  /\ \E val \in NumberControl(activeImage[1].gridCols, GRID_MIN, GRID_MAX, {}) :
       val <= MaxGrid /\ setGridCols(val)

(* the keyboard shortcuts call undo and redo whatever the log holds *)
Undo == undo

Redo == Len(history) < MaxLog /\ redo

(* an entry of the log sidebar is clicked; -1 and Len(history) are no entries *)
Restore ==
  /\ Len(history) < MaxLog
  /\ \E index \in -1..Len(history) : restoreHistory(index)

NextHistory == HistoryLoad \/ GridRows \/ GridCols \/ Undo \/ Redo \/ Restore

SpecHistory == Init /\ [][NextHistory]_vars

(* ------------------------------------------------------------------ *)
(* Specification of a log filled to its cap                           *)
(* ------------------------------------------------------------------ *)
CapConfigs == {Config(<<ImageData(800, 800, <<>>, 1, 2, <<>>)>>, 1, 1)}

CapLoad ==
  /\ nextId = 0
  /\ \E config \in CapConfigs : handleImportConfig(config)

(* the minus button of the rows control at its minimum: a recorded action that
   leaves the grid as it is *)
CapRecord ==
  /\ activeImage # <<>>
  /\ Len(history) <= HISTORY_CAP
  /\ \E val \in NumberControl(activeImage[1].gridRows, GRID_MIN, GRID_MAX, {}) :
       val = activeImage[1].gridRows /\ setGridRows(val)

(* the entries that redo and restoreHistory appended *)
Replays(hist) ==
  Cardinality({i \in DOMAIN hist : hist[i].action \in {"redo", "restore"}})

CapUndo == Len(future) < MaxFuture /\ undo

CapRedo ==
  /\ Len(history) <= HISTORY_CAP
  /\ Replays(history) < MaxReplays
  /\ redo

CapRestore ==
  /\ Len(history) <= HISTORY_CAP
  /\ Replays(history) < MaxReplays
  /\ restoreHistory(0)

NextCap == CapLoad \/ CapRecord \/ CapUndo \/ CapRedo \/ CapRestore

SpecCap == Init /\ [][NextCap]_vars

(* ------------------------------------------------------------------ *)
(* Specification of results and the changes that invalidate them      *)
(* ------------------------------------------------------------------ *)
InvalConfigs == {Config(<<ImageData(800, 800, <<Rect(60, 60, 40, 40)>>, 1, 2, <<>>)>>, 1, 1)}

(* client points in the home view: two inside the selection and away from its
   handles, local (70, 70) and (90, 70), and its bottom-right corner *)
InvalPoints == {<<110, 110>>, <<130, 110>>, <<140, 140>>}

InvalLoad ==
  /\ nextId = 0
  /\ \E config \in InvalConfigs : handleImportConfig(config)

InvalGridRows ==
  /\ activeImage # <<>>
  /\ Len(history) < MaxHist
  /\ \E val \in NumberControl(activeImage[1].gridRows, GRID_MIN, GRID_MAX, {}) :
       val <= MaxGrid /\ setGridRows(val)

InvalGridCols ==
  /\ activeImage # <<>>
  /\ Len(history) < MaxHist
  /\ \E val \in NumberControl(activeImage[1].gridCols, GRID_MIN, GRID_MAX, {}) :
       val <= MaxGrid /\ setGridCols(val)

InvalDown ==
  /\ Len(history) < MaxHist
  /\ ViewIsHome
  /\ \E pt \in InvalPoints : PointerDown(1, pt[1], pt[2], FALSE)

InvalMove == \E pt \in InvalPoints : PointerMove(1, pt[1], pt[2])

InvalUp == \E pt \in InvalPoints : PointerUp(1, pt[1], pt[2])

NextInval ==
  \/ InvalLoad \/ InvalGridRows \/ InvalGridCols
  \/ InvalDown \/ InvalMove \/ InvalUp
  \/ clickStart \/ Tick \/ advanceClock

SpecInval == Init /\ [][NextInval]_vars

(* ------------------------------------------------------------------ *)
(* Specification of history navigation around draws                   *)
(* ------------------------------------------------------------------ *)
NavConfigs == {Config(<<ImageData(800, 800, <<Rect(60, 60, 40, 40)>>, 1, 2, <<>>)>>, 1, 1)}

NavLoad ==
  /\ nextId = 0
  /\ \E config \in NavConfigs : handleImportConfig(config)

NavGridRows ==
  /\ activeImage # <<>>
  /\ Len(history) < MaxNavLog
  /\ \E val \in NumberControl(activeImage[1].gridRows, GRID_MIN, GRID_MAX, {}) :
       val <= MaxGrid /\ setGridRows(val)

(* the remove button of an entry of the image list *)
NavRemove ==
  /\ Len(history) < MaxNavLog
  /\ \E id \in ImageIds(images) : removeImage(id)

(* the undo and redo buttons work while a draw is running; the keyboard
   shortcuts do not *)
NavUndo == Len(history) > 0 /\ undo

NavRedo == Len(history) < MaxNavLog /\ Len(future) > 0 /\ redo

(* an entry of the log sidebar is clicked *)
NavRestore ==
  /\ Len(history) < MaxNavLog
  /\ \E index \in 0..(Len(history) - 1) : restoreHistory(index)

NextNav ==
  \/ NavLoad \/ NavGridRows \/ NavRemove \/ NavUndo \/ NavRedo \/ NavRestore
  \/ clickStart \/ Tick \/ advanceClock

SpecNav == Init /\ [][NextNav]_vars

(* ------------------------------------------------------------------ *)
(* Specification of a draw running to its end                         *)
(* ------------------------------------------------------------------ *)
RunLoad ==
  /\ nextId = 0
  /\ \E config \in LotteryConfigs : handleImportConfig(config)

(* the start button is clicked while the clock of the model can still run
   for the duration of the draw *)
RunStart ==
  /\ clock + animationDuration * MS_PER_SECOND <= MaxSeconds * MS_PER_SECOND
  /\ clickStart

NextRun == RunLoad \/ TypeWinnerCount \/ RunStart \/ Tick \/ advanceClock

(* The browser keeps calling the requestAnimationFrame callback, and Date.now()
   keeps growing while it does. *)
SpecRun == Init /\ [][NextRun]_vars /\ WF_vars(Tick) /\ WF_vars(advanceClock)

(* ------------------------------------------------------------------ *)
(* Specification of the two-pointer pinch                             *)
(* ------------------------------------------------------------------ *)
PinchConfigs == {Config(<<ImageData(800, 800, <<>>, 1, 2, <<>>)>>, 1, 1)}

(* client points on one line, 10, 20 and 30 apart: the distance ratios of a
   pinch are 1/3, 1/2, 2/3, 3/2, 2 and 3, and 0 when the pointers meet *)
PinchPoints == {<<100, 100>>, <<110, 100>>, <<130, 100>>}

PinchLoad ==
  /\ nextId = 0
  /\ \E config \in PinchConfigs : handleImportConfig(config)

PinchDown ==
  /\ Len(history) < MaxHist
  /\ ViewIsHome
  /\ \E p \in 1..DrawPointers, pt \in PinchPoints :
       /\ p \notin pointersDown
       /\ \A q \in 1..(p - 1) : q \in pointersDown
       /\ PointerDown(p, pt[1], pt[2], FALSE)

PinchMove ==
  \E p \in 1..DrawPointers, pt \in PinchPoints : PointerMove(p, pt[1], pt[2])

PinchUp ==
  \E p \in 1..DrawPointers, pt \in PinchPoints : PointerUp(p, pt[1], pt[2])

NextPinch == PinchLoad \/ PinchDown \/ PinchMove \/ PinchUp

SpecPinch == Init /\ [][NextPinch]_vars

(* ------------------------------------------------------------------ *)
(* Specification of the view                                          *)
(* ------------------------------------------------------------------ *)
(* one image whose selection, 2 x 2 cells of 20 x 20, is shown at client
   (100, 100) .. (140, 140) in the home view *)
ViewConfigs == {Config(<<ImageData(800, 800, <<Rect(60, 60, 40, 40)>>, 2, 2, <<>>)>>, 1, 1)}

(* client points on one line, so that pinch distances have rational ratios *)
ViewPoints == {<<100, 100>>, <<110, 120>>, <<130, 160>>}

ViewLoad ==
  /\ nextId = 0
  /\ \E config \in ViewConfigs : handleImportConfig(config)

(* pointers go down with the shift key held: the first one pans, the second
   one starts a pinch *)
ViewDown ==
  /\ ViewIsHome
  /\ \E p \in 1..DrawPointers, pt \in ViewPoints :
       /\ p \notin pointersDown
       /\ \A q \in 1..(p - 1) : q \in pointersDown
       /\ PointerDown(p, pt[1], pt[2], TRUE)

ViewMove ==
  \E p \in 1..DrawPointers, pt \in ViewPoints : PointerMove(p, pt[1], pt[2])

ViewUp ==
  \E p \in 1..DrawPointers, pt \in ViewPoints : PointerUp(p, pt[1], pt[2])

(* the toolbar and sidebar buttons, pressed while no pointer is on the canvas *)
ViewZoomIn == pointersDown = {} /\ nextId > 0 /\ QLt(scale, Q(MaxZoom)) /\ zoomIn
ViewZoomOut == pointersDown = {} /\ nextId > 0 /\ QLe(scale, Q(MaxZoom)) /\ zoomOut
ViewResetButton == pointersDown = {} /\ resetButton
ViewReset == pointersDown = {} /\ resetView

NextView ==
  \/ ViewLoad \/ ViewDown \/ ViewMove \/ ViewUp
  \/ ViewZoomIn \/ ViewZoomOut \/ ViewResetButton \/ ViewReset

SpecView == Init /\ [][NextView]_vars

(* ------------------------------------------------------------------ *)
(* Specification of the image list and its layout                     *)
(* ------------------------------------------------------------------ *)
(* pixel widths of the images of a configuration file; a file can name any *)
LayoutWidths == {0, 300, 800}

(* every list of one to MaxImages images over these widths *)
LayoutConfigs ==
  {Config([i \in DOMAIN ws |-> ImageData(ws[i], 800, <<>>, 1, 2, <<>>)], 1, 1) :
     ws \in UNION {[1..m -> LayoutWidths] : m \in 1..MaxImages}}

LayoutLoad ==
  /\ nextId = 0
  /\ \E config \in LayoutConfigs : handleImportConfig(config)

LayoutRemove == \E id \in ImageIds(images) : removeImage(id)

LayoutSelect == \E id \in ImageIds(images) : handleSelectImage(id)

NextLayout == LayoutLoad \/ LayoutRemove \/ LayoutSelect

SpecLayout == Init /\ [][NextLayout]_vars

(* ------------------------------------------------------------------ *)
(* Specification of editing a selection with one pointer              *)
(* ------------------------------------------------------------------ *)
(* one 400 x 400 image, shown at scale 2 with pan (40, 40) in its home view:
   its selection, local (30, 30) .. (50, 50), is at client (100, 100) ..
   (140, 140); without and with an excluded cell *)
EditConfigs ==
  {Config(<<ImageData(400, 400, <<Rect(30, 30, 20, 20)>>, 1, 2, ex)>>, 1, 1) :
     ex \in {<<>>, <<1>>}}

(* the eight handles of the selection in the home view, in the order tl, tm,
   tr, mr, br, bm, bl, ml *)
EditHandlePoints ==
  {<<100, 100>>, <<120, 100>>, <<140, 100>>, <<140, 120>>,
   <<140, 140>>, <<120, 140>>, <<100, 140>>, <<100, 120>>}

(* where the pointer goes down: the handles and the centre of the selection *)
EditDownPoints == EditHandlePoints \cup {<<120, 120>>}

(* where the pointer moves: the centre of the selection and a point 3 px
   beside it, a point of the image left of and above the selection, and a
   point beyond the bottom-right corner of the image *)
EditTargets == {<<120, 120>>, <<123, 120>>, <<90, 90>>, <<1000, 1000>>}

(* the pointer-downs in the log *)
Gestures(hist) ==
  Cardinality({i \in DOMAIN hist :
                 hist[i].action \in {"create selection", "move selection",
                                     "resize selection"}})

EditLoad ==
  /\ nextId = 0
  /\ \E config \in EditConfigs : handleImportConfig(config)

EditDown ==
  /\ Gestures(history) < MaxEdits
  /\ \E pt \in EditDownPoints : PointerDown(1, pt[1], pt[2], FALSE)

EditMove == \E pt \in EditTargets : PointerMove(1, pt[1], pt[2])

EditUp == \E pt \in EditDownPoints \cup EditTargets : PointerUp(1, pt[1], pt[2])

NextEdit == EditLoad \/ EditDown \/ EditMove \/ EditUp

SpecEdit == Init /\ [][NextEdit]_vars

(* ------------------------------------------------------------------ *)
(* Specification of two images under a mouse and a finger             *)
(* ------------------------------------------------------------------ *)
(* two 300 x 300 images side by side, each with the selection (40, 40) ..
   (100, 100); the first is active and both are shown in the initial view
   (scale 1, pan (0, 0)), the second at world x = 400 *)
MultiConfigs ==
  {Config(<<ImageData(300, 300, <<Rect(40, 40, 60, 60)>>, 1, 2, <<>>),
            ImageData(300, 300, <<Rect(40, 40, 60, 60)>>, 1, 2, <<1>>)>>, 1, 1)}

(* client points: two inside the first image's selection and one inside the
   second image's, all on one line and away from the handles *)
MultiPoints == {<<70, 70>>, <<85, 70>>, <<470, 70>>}

(* Pointer 1 is the mouse, which also moves over the canvas unpressed, and
   pointer 2 a finger. *)
MultiLoad ==
  /\ nextId = 0
  /\ \E config \in MultiConfigs : handleImportConfig(config)

MultiDown ==
  /\ Len(history) < MaxHist
  /\ ViewIsHome \/ ViewIsInitial
  /\ \E p \in 1..DrawPointers, pt \in MultiPoints : PointerDown(p, pt[1], pt[2], FALSE)

MultiMove ==
  \E p \in 1..DrawPointers, pt \in MultiPoints : PointerMove(p, pt[1], pt[2])

MultiUp ==
  \E p \in 1..DrawPointers, pt \in MultiPoints : PointerUp(p, pt[1], pt[2])

MultiHover ==
  /\ ViewIsHome \/ ViewIsInitial
  /\ \E pt \in MultiPoints : PointerHover(1, pt[1], pt[2])

MultiLeave == \E pt \in MultiPoints : PointerLeave(1, pt[1], pt[2])

NextMulti ==
  MultiLoad \/ MultiDown \/ MultiMove \/ MultiUp \/ MultiHover \/ MultiLeave

SpecMulti == Init /\ [][NextMulti]_vars

(* ------------------------------------------------------------------ *)
(* Specification of configuration import                              *)
(* ------------------------------------------------------------------ *)
(* one image of two cells, under each winner count and duration up to 2 *)
ImportConfigs ==
  {Config(<<ImageData(800, 800, <<Rect(60, 60, 40, 40)>>, 1, 2, <<>>)>>, count, seconds) :
     count \in 1..2, seconds \in 1..2}

ImportFiles ==
  {ImportFile(config, v, i, s, f) : config \in ImportConfigs, v, i, s, f \in BOOLEAN}

(* the file cannot be imported *)
Defective(file) ==
  ~file.hasVersion \/ ~file.hasImages \/ ~file.hasSettings \/ file.fetchFails

ImportLoad ==
  /\ nextId = 0
  /\ \E file \in ImportFiles : ~Defective(file) /\ readerOnload(file)

ImportBroken == \E file \in ImportFiles : Defective(file) /\ readerOnload(file)

NextImport ==
  \/ ImportLoad \/ ImportBroken \/ TypeWinnerCount
  \/ NavGridRows \/ NavUndo \/ NavRedo

SpecImport == Init /\ [][NextImport]_vars

(* ------------------------------------------------------------------ *)
(* Specification of panning with one pointer                          *)
(* ------------------------------------------------------------------ *)
(* client points in the home view of the 800 x 800 image (scale 1, pan
   (40, 40)): one on empty space left of and above the image, one inside the
   selection, and one on its right boundary between two handles *)
PanPoints == {<<20, 20>>, <<110, 110>>, <<140, 110>>}

PanLoad ==
  /\ nextId = 0
  /\ \E config \in InvalConfigs : handleImportConfig(config)

(* every gesture starts in the home view, with or without the shift key *)
PanDown ==
  /\ Len(history) < MaxHist
  /\ ViewIsHome
  /\ \E pt \in PanPoints, panKey \in BOOLEAN : PointerDown(1, pt[1], pt[2], panKey)

PanMove == \E pt \in PanPoints : PointerMove(1, pt[1], pt[2])

PanUp == \E pt \in PanPoints : PointerUp(1, pt[1], pt[2])

(* the pan tool button of the toolbar *)
PanTool == pointersDown = {} /\ nextId > 0 /\ setIsPanningMode(~isPanningMode)

NextPan ==
  \/ PanLoad \/ PanDown \/ PanMove \/ PanUp \/ PanTool \/ ViewResetButton
  \/ clickStart \/ Tick \/ advanceClock

SpecPan == Init /\ [][NextPan]_vars

(* ------------------------------------------------------------------ *)
(* Specification of all the operations on the cells                   *)
(* ------------------------------------------------------------------ *)
(* client points in the home view: one inside the selection and one on the
   image outside of it.  A move from the first to the second puts the second
   inside; a drawing from one to the other makes them the top-left and
   bottom-right handles. *)
OpsPoints == {<<110, 110>>, <<200, 200>>}

OpsDown ==
  /\ Len(history) < MaxHist
  /\ ViewIsHome
  /\ \E pt \in OpsPoints : PointerDown(1, pt[1], pt[2], FALSE)

OpsMove == \E pt \in OpsPoints : PointerMove(1, pt[1], pt[2])

OpsUp == \E pt \in OpsPoints : PointerUp(1, pt[1], pt[2])

NextOps ==
  \/ InvalLoad \/ InvalGridRows \/ InvalGridCols
  \/ OpsDown \/ OpsMove \/ OpsUp
  \/ CapUndo \/ CapRedo \/ CapRestore

SpecOps == Init /\ [][NextOps]_vars

(* ------------------------------------------------------------------ *)
(* Specification of clicks on the cells of a changing grid            *)
(* ------------------------------------------------------------------ *)
NextCell ==
  \/ PanLoad \/ PanDown \/ PanMove \/ PanUp \/ ViewResetButton
  \/ InvalGridRows \/ InvalGridCols

SpecCell == Init /\ [][NextCell]_vars

(* ------------------------------------------------------------------ *)
(* Properties                                                         *)
(* ------------------------------------------------------------------ *)
AtLeastMinimum(sel) ==
  QLe(Q(MIN_SELECTION_SIZE), sel.w) /\ QLe(Q(MIN_SELECTION_SIZE), sel.h)

GestureComplete == pointersDown = {} /\ mode = "none"

(* C1: whenever no pointer is down and the mode is idle again, every image's
   selection is null or at least MIN_SELECTION_SIZE wide and high. *)
C1_NoSmallSelectionSurvives ==
  GestureComplete =>
    \A i \in DOMAIN images :
      images[i].selection = <<>> \/ AtLeastMinimum(images[i].selection[1])

(* the rectangle spanned by local points (x0, y0) and (x1, y1), null when it is
   smaller than MIN_SELECTION_SIZE in either dimension *)
SpannedSelection(x0, y0, x1, y1) ==
  LET dx == QSub(x1, x0)
      dy == QSub(y1, y0)
  IN  IF \/ QLt(MathAbs(dx), Q(MIN_SELECTION_SIZE))
         \/ QLt(MathAbs(dy), Q(MIN_SELECTION_SIZE))
      THEN <<>>
      ELSE <<[x |-> MathMin(x0, x1), y |-> MathMin(y0, y1),
              w |-> MathAbs(dx), h |-> MathAbs(dy)]>>

(* the step that lifts the pointer of a drawing gesture no other pointer joined *)
DrawingGestureEnds ==
  /\ pointersDown # {}
  /\ pointersDown' = {}
  /\ mode = "drawing"
  /\ drawOrigin # <<>>
  /\ drawOrigin[1].single
  /\ Len(activePointers) = 1

(* C3: a single-pointer drawing gesture whose drag, taken to the image's local
   coordinates, runs from (startX, startY) to (endX, endY) leaves the image's
   selection null when |dx| or |dy| is below MIN_SELECTION_SIZE and otherwise
   the rectangle with x = min(startX, endX), y = min(startY, endY), w = |dx|,
   h = |dy|. *)
C3_DrawnSelection ==
  [][DrawingGestureEnds =>
       LET id == drawOrigin[1].id
           from == LocalPoint(id, startPos.x, startPos.y)
           to == LocalPoint(id, activePointers[1].x, activePointers[1].y)
       IN  images'[FindIndex(images, id)].selection
             = SpannedSelection(from.x, from.y, to.x, to.y)]_vars

(* what a history entry snapshots of the live model *)
Snapshot(imgs) ==
  [i \in DOMAIN imgs |->
     [id |-> imgs[i].id, selection |-> imgs[i].selection, gridRows |-> imgs[i].gridRows,
      gridCols |-> imgs[i].gridCols, excludedCells |-> imgs[i].excludedCells]]

(* C10: once a recorded action has completed, the last history entry's snapshot
   equals the live per-image selection, grid and exclusion state. *)
C10_LastEntryIsLiveModel ==
  (GestureComplete /\ Len(history) > 0) =>
    Snapshot(Last(history).images) = Snapshot(images)

(* C4: a draw request whose winner count exceeds the eligible-cell count is
   rejected: the running flag and the scheduled tick loops stay as they are,
   and every image's winners, the global winner list and the flasher are
   unchanged. *)
C4_ExcessRequestRejected ==
  [][(startLottery /\ winnerCount > totalEligibleCount(images)) =>
       /\ UNCHANGED <<isLotteryRunning, rafQueue, globalWinners, tempFlasher>>
       /\ \A i \in DOMAIN images : images'[i].winners = images[i].winners]_vars

(* C5: a draw request made when no cell is eligible is a no-op: the draw is not
   running afterwards, no tick loop is scheduled, and images, the global winner
   list, the flasher and the history log are unchanged. *)
C5_EmptyRequestIsNoOp ==
  [][(startLottery /\ totalEligibleCount(images) = 0) =>
       /\ isLotteryRunning' = FALSE
       /\ UNCHANGED <<isLotteryRunning, rafQueue, images, globalWinners, tempFlasher,
                      history, future>>]_vars

(* a request was refused on an image whose two cells are both excluded *)
C5_Witness ==
  /\ alertMsg = "no eligible participants"
  /\ ~isLotteryRunning
  /\ Len(images) = 1
  /\ images[1].selection # <<>>
  /\ Len(images[1].excludedCells) = images[1].gridRows * images[1].gridCols
  /\ Len(history) = 1

Min(a, b) == IF a < b THEN a ELSE b

(* pool membership spelled out on the images *)
EligibleCell(w) ==
  \E i \in DOMAIN images :
    /\ images[i].id = w.imageId
    /\ images[i].selection # <<>>
    /\ 0 <= w.cellIndex
    /\ w.cellIndex < images[i].gridRows * images[i].gridCols
    /\ ~Includes(images[i].excludedCells, w.cellIndex)

(* what the completion of the draw whose closure is c must leave behind *)
DrawResult(c) ==
  /\ Len(globalWinners') = Min(c.winnerCount, Len(c.pool))
  /\ \A a, b \in DOMAIN globalWinners' :
       a # b => <<globalWinners'[a].imageId, globalWinners'[a].cellIndex>>
                  # <<globalWinners'[b].imageId, globalWinners'[b].cellIndex>>
  /\ \A a \in DOMAIN globalWinners' :
       /\ Includes(c.pool, globalWinners'[a])
       /\ EligibleCell(globalWinners'[a])
  /\ \A i \in DOMAIN images' :
       /\ Range(images'[i].winners)
            = {globalWinners'[a].cellIndex :
                 a \in {b \in DOMAIN globalWinners' :
                          globalWinners'[b].imageId = images'[i].id}}
       /\ Cardinality(Range(images'[i].winners)) = Len(images'[i].winners)

(* C6: the step that completes a draw leaves exactly min(winnerCount, |pool|)
   pairwise distinct winners, each a member of the pool built at start, and
   gives every image the winning cell indices tagged with its id. *)
C6_FinalWinners ==
  [][Len(rafQueue') < Len(rafQueue) =>
       \E k \in DOMAIN rafQueue :
         rafQueue' = RemoveAt(rafQueue, k) /\ DrawResult(rafQueue[k])]_vars

(* a completed draw of two winners, one on each of two images *)
C6_Witness ==
  /\ ~isLotteryRunning
  /\ rafQueue = <<>>
  /\ Len(images) = 2
  /\ Len(globalWinners) = 2
  /\ globalWinners[1].imageId # globalWinners[2].imageId
  /\ Len(images[1].winners) = 1
  /\ Len(images[2].winners) = 1

(* the operations C2 lists, as steps: a grid control, the start of a drawing,
   a moving frame, a resizing frame *)
ChangesRectOrGrid(i) ==
  \/ images'[i].gridRows # images[i].gridRows
  \/ images'[i].gridCols # images[i].gridCols
  \/ /\ images'[i].selection # images[i].selection
     /\ \/ mode # "drawing" /\ mode' = "drawing"
        \/ mode = "moving" /\ mode' = "moving"
        \/ mode = "resizing" /\ mode' = "resizing"

(* C2: a step that changes gridRows, gridCols or the selection rectangle of an
   image (grid control, drawing start, moving frame, resizing frame) leaves
   that image's excludedCells and winners both empty. *)
C2_ChangeClearsResults ==
  [][\A i \in DOMAIN images :
       (i \in DOMAIN images' /\ images'[i].id = images[i].id /\ ChangesRectOrGrid(i))
         => images'[i].excludedCells = <<>> /\ images'[i].winners = <<>>]_vars

(* the live model after undo() and then redo() *)
UndoThenRedo ==
  LET u == undoResult(history, future, images)
  IN  redoResult(u.history, u.future, u.images)

(* C7 as stated: undo followed immediately by redo restores the live model
   that held before the undo. *)
C7_UndoRedoRestores == Snapshot(UndoThenRedo.images) = Snapshot(images)

(* C7: an undo on a log that is not empty, followed immediately by redo,
   restores the live model that held before the undo. *)
C7_UndoOfEntryRedoRestores ==
  Len(history) > 0 => Snapshot(UndoThenRedo.images) = Snapshot(images)

(* record(a); record(b); undo(); redo() has been performed: the log ends with
   the redo entry and the live model is the one record(b) left *)
C7_Witness ==
  /\ Len(history) = 2
  /\ history[1].action = "import config"
  /\ history[2].action = "redo"
  /\ future = <<>>
  /\ images = history[2].images
  /\ images[1].gridRows = 2

(* C8: restore(i) with a valid index appends one entry carrying entry i's
   snapshot, keeps the entries before it and makes the live model entry i's
   snapshot; with an invalid index it changes nothing. *)
C8_RestoreAppends ==
  \A index \in -1..Len(history) :
    LET r == restoreResult(history, future, images, index)
        n == Len(history)
    IN  IF 0 <= index /\ index < n
        THEN /\ Len(r.history) = n + 1
             /\ SubSeq(r.history, 1, n) = history
             /\ Last(r.history).images = history[index + 1].images
             /\ r.images = history[index + 1].images
        ELSE /\ r.history = history
             /\ r.future = future
             /\ r.images = images

(* record(a); record(b); restore(0) has been performed *)
C8_Witness ==
  /\ Len(history) = 3
  /\ history[3].action = "restore"
  /\ history[3].images = history[1].images
  /\ history[2].images # history[1].images
  /\ images = history[1].images

(* C9: the history log never holds more than HISTORY_CAP entries. *)
C9_LogWithinCap == Len(history) <= HISTORY_CAP

(* C11: undo() on a log of n >= 2 entries makes entry n-2 (counted from 0) the
   live model, removes the last entry and puts the live model it replaced at
   the front of the future stack; redo() makes the front of the future stack
   the live model and removes it from the stack; undo() on an empty log and
   redo() on an empty future stack change nothing. *)
C11_UndoRedoSteps ==
  LET n == Len(history)
      u == undoResult(history, future, images)
      r == redoResult(history, future, images)
      same == [history |-> history, future |-> future, images |-> images]
  IN  /\ n >= 2 => /\ u.images = history[n - 1].images
                    /\ u.history = SubSeq(history, 1, n - 1)
                    /\ Len(u.future) = Len(future) + 1
                    /\ u.future[1].images = images
                    /\ SubSeq(u.future, 2, Len(u.future)) = future
      /\ future # <<>> => /\ r.images = future[1].images
                          /\ r.future = SubSeq(future, 2, Len(future))
      /\ n = 0 => u = same
      /\ future = <<>> => r = same

(* undo() has acted on a log of two entries whose last one changed the grid *)
C11_Witness ==
  /\ Len(history) = 1
  /\ Len(future) = 1
  /\ images = history[1].images
  /\ future[1].images # images
  /\ future[1].action = "state before undo"

(* C12: a step that appends an entry other than a redo entry to the log, a
   record or a restore, leaves the future stack empty, and redo() changes
   nothing in the state it leaves. *)
C12_RecordEmptiesFuture ==
  [][(Len(history') = Len(history) + 1 /\ Last(history').action # "redo") =>
       /\ future' = <<>>
       /\ redoResult(history', future', images')
            = [history |-> history', future |-> future', images |-> images']]_vars

(* a grid change was recorded after two undos and one redo *)
C12_Witness ==
  /\ Len(history) = 2
  /\ history[1].action = "redo"
  /\ history[2].action = "grid rows"
  /\ future = <<>>

(* a step of undo, redo or restore that acts *)
NavigationStep ==
  \/ Len(history) > 0 /\ undo
  \/ Len(future) > 0 /\ redo
  \/ \E index \in 0..(Len(history) - 1) : restoreHistory(index)

(* C13: undo, redo and restore bring back no winners: after such a step every
   image's winners are empty or the ones the image had before the step. *)
C13_NoResurrectedWinners ==
  [][NavigationStep =>
       \A i \in DOMAIN images' :
         \/ images'[i].winners = <<>>
         \/ \E j \in DOMAIN images :
              /\ images[j].id = images'[i].id
              /\ images[j].winners = images'[i].winners]_vars

(* C14: while a draw is running exactly one tick loop is scheduled, and no
   step schedules a second one or replaces the pool, the start time, the
   duration or the winner count the running loop was started with; the
   running flag is set exactly while a tick loop is scheduled. *)
C14_SingleDraw ==
  [][/\ isLotteryRunning <=> rafQueue # <<>>
     /\ isLotteryRunning =>
          /\ Len(rafQueue) = 1
          /\ Len(rafQueue') <= 1
          /\ rafQueue' # <<>> => rafQueue'[1] = rafQueue[1]
          /\ ~clickStart]_vars

(* a draw is running on cells that are still eligible: only the running flag
   keeps the start button disabled *)
C14_Witness ==
  /\ isLotteryRunning
  /\ Len(rafQueue) = 1
  /\ tempFlasher # <<>>
  /\ totalEligibleCount(images) > 0

(* C15: a running draw eventually completes, the running flag false and the
   flasher null; and whenever no draw is running the flasher is null. *)
C15_DrawCompletes ==
  /\ [](~isLotteryRunning => tempFlasher = <<>>)
  /\ isLotteryRunning ~> (~isLotteryRunning /\ tempFlasher = <<>>)

(* a draw has flashed a cell and then completed *)
C15_Witness ==
  /\ ~isLotteryRunning
  /\ tempFlasher = <<>>
  /\ rafQueue = <<>>
  /\ globalWinners # <<>>
  /\ clock >= animationDuration * MS_PER_SECOND

(* C16: while a draw is running every image's winners and the global winner
   list are empty. *)
C16_NoWinnersWhileRunning ==
  isLotteryRunning =>
    /\ globalWinners = <<>>
    /\ \A i \in DOMAIN images : images[i].winners = <<>>

(* a move frame of a pinch: two pointers are tracked, the pinch start is
   recorded and one of the two pointers moves *)
PinchFrame ==
  /\ Len(activePointers) = 2
  /\ Len(activePointers') = 2
  /\ pinchStartInfo # <<>>
  /\ pointersDown' = pointersDown
  /\ activePointers' # activePointers

(* the square of initialScale * currentDistance / initialDistance *)
PinchTargetSq ==
  LET info == pinchStartInfo[1]
      distSq == HypotSq(activePointers'[1].x - activePointers'[2].x,
                        activePointers'[1].y - activePointers'[2].y)
  IN  QDiv(QMul(QMul(info.scale, info.scale), Q(distSq)), Q(info.distSq))

(* the anchor equation and the clamped scale after a frame *)
PinchAnchored ==
  LET anchor == pinchStartInfo[1].worldPoint
      midX == QSub(QN(activePointers'[1].x + activePointers'[2].x, 2), Q(RECT_LEFT))
      midY == QSub(QN(activePointers'[1].y + activePointers'[2].y, 2), Q(RECT_TOP))
  IN  /\ QAdd(QMul(anchor.x, scale'), pan'.x) = midX
      /\ QAdd(QMul(anchor.y, scale'), pan'.y) = midY
      /\ QLe(SCALE_MIN, scale') /\ QLe(scale', SCALE_MAX)
      /\ IF QLt(PinchTargetSq, QMul(SCALE_MIN, SCALE_MIN)) THEN scale' = SCALE_MIN
         ELSE IF QLt(QMul(SCALE_MAX, SCALE_MAX), PinchTargetSq) THEN scale' = SCALE_MAX
         ELSE QMul(scale', scale') = PinchTargetSq

(* C17: after every move frame of a two-pointer pinch the world point captured
   under the initial midpoint lies under the current midpoint, anchorWorld *
   newScale + newPan = midpoint in both axes, with newScale = clamp(initialScale
   * currentDistance / initialDistance, 0.1, 5). *)
C17_PinchKeepsAnchor == [][PinchFrame => PinchAnchored]_vars

(* C18: the view scale is within [0.1, 5] in every reachable state. *)
C18_ScaleInRange == QLe(SCALE_MIN, scale) /\ QLe(scale, SCALE_MAX)

(* screen points on and around the cell boundaries of the home view *)
ScreenPoints == {<<x, y>> : x \in {95, 100, 120, 139}, y \in {100, 119, 150}}

(* the canvas point lies in the painted rectangle, its right and bottom edges
   belonging to the next cell *)
InPainted(sx, sy, rect) ==
  /\ QLe(rect.left, Q(sx)) /\ QLt(Q(sx), rect.right)
  /\ QLe(rect.top, Q(sy)) /\ QLt(Q(sy), rect.bottom)

(* C19: in a view with scale > 0, taking a screen point to the world with
   getWorldPos and back with the transform of render returns the point, and
   the cell that a click at the point toggles is the cell painted there. *)
C19_ViewRoundTrip ==
  QLt(Q(0), scale) =>
    \A pt \in ScreenPoints :
      LET w == getWorldPos(pt[1], pt[2])
          sx == pt[1] - RECT_LEFT
          sy == pt[2] - RECT_TOP
          layouts == getImagesLayout(images)
      IN  /\ worldToScreen(w.x, w.y) = Point(Q(sx), Q(sy))
          /\ \A i \in DOMAIN layouts :
               layouts[i].selection # <<>> =>
                 LET hit == CellUnder(layouts[i], pt[1], pt[2])
                 IN  \A idx \in 0..(layouts[i].gridRows * layouts[i].gridCols - 1) :
                       hit = <<idx>> <=> InPainted(sx, sy, paintedCell(layouts[i], idx))

(* a zoomed and panned view in which one of the screen points hits a cell *)
C19_Witness ==
  /\ QLt(Q(1), scale)
  /\ pan # zoomToImage(images, activeImageId).pan
  /\ pan.x # pan.y
  /\ \E pt \in ScreenPoints :
       \E i \in DOMAIN images :
         /\ images[i].selection # <<>>
         /\ CellUnder(getImagesLayout(images)[i], pt[1], pt[2]) = <<3>>

(* the sum of the pixel widths of the images before the i-th *)
RECURSIVE WidthsBefore(_, _)
WidthsBefore(imgs, i) ==
  IF i <= 1 THEN 0 ELSE imgs[i - 1].naturalWidth + WidthsBefore(imgs, i - 1)

(* C20: the layout gives the i-th image (counted from 0) worldX = the sum of
   the widths of the images before it + i * IMAGE_GAP and worldY = 0, and no
   two images' world rectangles overlap. *)
C20_LayoutPacksLeftToRight ==
  LET layouts == getImagesLayout(images)
  IN  /\ DOMAIN layouts = DOMAIN images
      /\ \A i \in DOMAIN layouts :
           /\ layouts[i].worldX = WidthsBefore(images, i) + (i - 1) * IMAGE_GAP
           /\ layouts[i].worldY = 0
           /\ layouts[i].id = images[i].id
      /\ \A i, j \in DOMAIN layouts :
           i < j => layouts[i].worldX + layouts[i].naturalWidth <= layouts[j].worldX

(* three images of widths 300, 0 and 800: the third starts at 300 + 0 + 2 gaps *)
C20_Witness ==
  /\ Len(images) = 3
  /\ images[1].naturalWidth = 300
  /\ images[2].naturalWidth = 0
  /\ images[3].naturalWidth = 800
  /\ getImagesLayout(images)[3].worldX = 500

(* the step that lifts the only pointer of a moving gesture less than
   DRAG_THRESHOLD from where it went down *)
ClickGestureEnds ==
  /\ mode = "moving"
  /\ pointersDown # {}
  /\ pointersDown' = {}
  /\ Len(activePointers) = 1
  /\ HypotSq(activePointers[1].x - startPos.x, activePointers[1].y - startPos.y)
       < DRAG_THRESHOLD * DRAG_THRESHOLD

(* C21: a gesture that starts inside the active image's selection and ends
   less than DRAG_THRESHOLD from its start, with or without move events in
   between, leaves the selection rectangle as it was before the gesture and
   changes excludedCells only by toggling the cell under the release point.
   The images before the gesture are the ones the pointer-down recorded. *)
C21_SmallGestureIsClick ==
  [][ClickGestureEnds =>
       LET k == activeLayoutIndex
           before == Last(history).images
           cell == CellUnder(getImagesLayout(before)[k],
                             activePointers[1].x, activePointers[1].y)
       IN  /\ images'[k].selection = before[k].selection
           /\ \A c \in 0..(before[k].gridRows * before[k].gridCols - 1) :
                Includes(images'[k].excludedCells, c)
                  <=> (Includes(before[k].excludedCells, c) <=> cell # <<c>>)]_vars

(* C22: whenever no pointer is physically down, the machine is idle: the mode
   is none, no pointer is tracked, and the pinch start, the handle, the
   initial selection and the initial pan are cleared. *)
C22_NoStaleGesture ==
  pointersDown = {} =>
    /\ mode = "none"
    /\ activePointers = <<>>
    /\ pinchStartInfo = <<>>
    /\ activeHandle = ""
    /\ initialSelection = <<>>
    /\ initialPan = <<>>

(* C23: no cell index is in excludedCells and in winners of the same image;
   toggling the exclusion of a winner empties the image's winners. *)
C23_NoExcludedWinner ==
  \A i \in DOMAIN images :
    Range(images[i].excludedCells) \cap Range(images[i].winners) = {}

(* C24: an import that fails, at the format test, at the settings or while an
   image is rebuilt, leaves images, the active image, the winner count, the
   draw duration, the global winners and the history log as they were. *)
C24_FailedImportChangesNothing ==
  [][(\E file \in ImportFiles : Defective(file) /\ readerOnload(file)) =>
       UNCHANGED <<images, activeImageId, winnerCount, animationDuration,
                   globalWinners, history, future>>]_vars

(* C25: from the second pointer-down until fewer than two pointers are
   tracked, no pointer event changes the images or the history log or enters
   the drawing, moving or resizing mode. *)
C25_PinchPreempts ==
  [][(Len(activePointers) >= 2 \/ Len(activePointers') >= 2) =>
       /\ images' = images
       /\ history' = history
       /\ mode' # mode => mode' \notin {"drawing", "moving", "resizing"}]_vars

(* the step that lifts one of the two pointers of a pinch *)
PinchEnds ==
  /\ Len(activePointers) = 2
  /\ pinchStartInfo # <<>>
  /\ Len(activePointers') = 1

(* C26: the event that lifts one of the two pointers of a pinch re-anchors
   the remaining pointer: the start position becomes its current position,
   the initial pan the current pan and the mode panning. *)
C26_PinchEndReanchors ==
  [][PinchEnds =>
       /\ startPos' = Point(activePointers'[1].x, activePointers'[1].y)
       /\ initialPan' = <<pan'>>
       /\ mode' = "panning"]_vars

(* C27: a pointer-down inside the existing selection of any image, active or
   not, does not enter the drawing mode and leaves that image's selection,
   excludedCells and winners as they are. *)
C27_DownInsideKeepsSelection ==
  [][\A q \in DOMAIN activePointers' :
       activePointers'[q].id \in pointersDown' \ pointersDown =>
         LET w == getWorldPos(activePointers'[q].x, activePointers'[q].y)
             layouts == getImagesLayout(images)
         IN  \A i \in DOMAIN layouts :
               isPointInSelection(w.x, w.y, layouts[i]) =>
                 /\ mode' = "drawing" => mode = "drawing"
                 /\ images'[i].selection = images[i].selection
                 /\ images'[i].excludedCells = images[i].excludedCells
                 /\ images'[i].winners = images[i].winners]_vars

(* a move event of the only pointer while the machine is in mode m *)
FrameOf(m) ==
  /\ mode = m
  /\ Len(activePointers) = 1
  /\ pointersDown' = pointersDown
  /\ activePointers' # activePointers
  /\ activeLayoutIndex # 0

(* C28: every frame of a moving gesture leaves the selection inside the
   image, 0 <= x, 0 <= y, x + w <= naturalWidth and y + h <= naturalHeight,
   with the w and h it had. *)
C28_MovingStaysInside ==
  [][FrameOf("moving") =>
       LET img == images'[activeLayoutIndex]
           sel == img.selection[1]
           old == images[activeLayoutIndex].selection[1]
       IN  /\ QLe(Q(0), sel.x) /\ QLe(Q(0), sel.y)
           /\ QLe(QAdd(sel.x, sel.w), Q(img.naturalWidth))
           /\ QLe(QAdd(sel.y, sel.h), Q(img.naturalHeight))
           /\ sel.w = old.w /\ sel.h = old.h]_vars

(* C29: every frame of a resizing gesture, with any of the 8 handles and any
   pointer delta, writes a selection with w >= 0 and h >= 0. *)
C29_ResizeKeepsExtent ==
  [][FrameOf("resizing") =>
       LET sel == images'[activeLayoutIndex].selection[1]
       IN  QLe(Q(0), sel.w) /\ QLe(Q(0), sel.h)]_vars

(* the bottom-right handle has been dragged past the left and top edges: the
   rectangle is flipped *)
C29_Witness ==
  /\ mode = "resizing"
  /\ activeHandle = "br"
  /\ initialSelection # <<>>
  /\ activeLayoutIndex # 0
  /\ LET sel == images[activeLayoutIndex].selection[1]
     IN  /\ QLt(sel.x, initialSelection[1].x)
         /\ QLt(sel.y, initialSelection[1].y)
         /\ QLt(Q(0), sel.w)
         /\ QLt(Q(0), sel.h)

(* the positions of the two edges of a rectangle along one axis *)
Edges(origin, extent) == {origin, QAdd(origin, extent)}

(* C30: a resizing frame leaves the edges that the handle does not name where
   the initial snapshot has them, also across a flip, and puts the edge that
   it names at its initial position + screen delta / scale: a handle with l
   keeps the right edge, one with r the left edge, one with t the bottom edge
   and one with b the top edge; tm and bm leave x and w, ml and mr leave y
   and h unchanged. *)
C30_ResizeMovesNamedEdges ==
  [][FrameOf("resizing") =>
       LET sel == images'[activeLayoutIndex].selection[1]
           s0 == initialSelection[1]
           dx == QDiv(Q(activePointers'[1].x - startPos.x), scale)
           dy == QDiv(Q(activePointers'[1].y - startPos.y), scale)
       IN  /\ CASE activeHandle \in {"tl", "ml", "bl"} ->
                    Edges(sel.x, sel.w) = {QAdd(s0.x, dx), QAdd(s0.x, s0.w)}
               [] activeHandle \in {"tr", "mr", "br"} ->
                    Edges(sel.x, sel.w) = {s0.x, QAdd(QAdd(s0.x, s0.w), dx)}
               [] OTHER -> sel.x = s0.x /\ sel.w = s0.w
           /\ CASE activeHandle \in {"tl", "tm", "tr"} ->
                    Edges(sel.y, sel.h) = {QAdd(s0.y, dy), QAdd(s0.y, s0.h)}
               [] activeHandle \in {"bl", "bm", "br"} ->
                    Edges(sel.y, sel.h) = {s0.y, QAdd(QAdd(s0.y, s0.h), dy)}
               [] OTHER -> sel.y = s0.y /\ sel.h = s0.h]_vars

(* the middle-left handle has been dragged by an odd number of pixels in a
   view of scale 2: the left edge is at a half pixel, y and h are the initial
   ones *)
C30_Witness ==
  /\ mode = "resizing"
  /\ activeHandle = "ml"
  /\ scale = Q(2)
  /\ initialSelection # <<>>
  /\ activeLayoutIndex # 0
  /\ LET sel == images[activeLayoutIndex].selection[1]
     IN  /\ sel.y = initialSelection[1].y
         /\ sel.h = initialSelection[1].h
         /\ sel.x # initialSelection[1].x
         /\ sel.x[2] = 2

(* a pointer-down of the only pointer that the pan tool, the pan modifier or
   empty space under it makes the start of a panning gesture *)
PanGestureStarts ==
  \E pt \in PanPoints, panKey \in BOOLEAN :
    /\ PointerDown(1, pt[1], pt[2], panKey)
    /\ pointersDown = {}
    /\ activePointers = <<>>
    /\ \/ isPanningMode
       \/ panKey
       \/ getImageAtWorldPos(getImagesLayout(images),
                             getWorldPos(pt[1], pt[2]).x, getWorldPos(pt[1], pt[2]).y) = 0

(* C31: a panning gesture changes only pan, by the pointer's screen
   displacement since down: its pointer-down enters the panning mode and
   records the pointer position and the pan, each move sets pan to the
   recorded pan + the displacement, and down, moves and up leave scale, the
   images and the history log unchanged, also while a draw is running. *)
C31_PanningOnlyPans ==
  [][/\ PanGestureStarts =>
          /\ mode' = "panning"
          /\ initialPan' = <<pan>>
          /\ startPos' = Point(activePointers'[1].x, activePointers'[1].y)
          /\ UNCHANGED <<scale, pan, images, history, future>>
     /\ (mode = "panning" /\ Len(activePointers) = 1 /\ pointersDown # {}
           /\ activePointers' # activePointers) =>
          /\ Len(activePointers') = 1 =>
               pan' = Point(QAdd(initialPan[1].x, Q(activePointers'[1].x - startPos.x)),
                            QAdd(initialPan[1].y, Q(activePointers'[1].y - startPos.y)))
          /\ Len(activePointers') = 0 => pan' = pan
          /\ UNCHANGED <<scale, images, history, future>>]_vars

(* the winners as a function of the pool, the winner count and the choices of
   the final shuffle alone *)
finalWinners(pool, count, js) ==
  Slice(shuffleArray(pool, js), 0, Min(count, Len(pool)))

(* C32: the winners of a draw do not depend on the flashing phase: whatever
   the number of ticks, the flasher and the clock, the completing frame with
   shuffle choices js leaves finalWinners(pool, winnerCount, js) and gives
   every image its cells of them; a flashing frame leaves the winners alone
   and shows a member of the pool built at start. *)
C32_WinnersIgnoreFlashing ==
  [][\A k \in DOMAIN rafQueue :
       \A r \in 0..(Len(rafQueue[k].pool) - 1),
          js \in ShuffleChoices(Len(rafQueue[k].pool)) :
         animate(k, r, js) =>
           IF clock - rafQueue[k].startTime < rafQueue[k].durationMs
           THEN /\ UNCHANGED <<images, globalWinners>>
                /\ \E i \in DOMAIN rafQueue[k].pool :
                     tempFlasher' = <<[imageId |-> rafQueue[k].pool[i].imageId,
                                       cellIndex |-> rafQueue[k].pool[i].cellIndex]>>
           ELSE /\ globalWinners'
                     = finalWinners(rafQueue[k].pool, rafQueue[k].winnerCount, js)
                /\ \A i \in DOMAIN images' :
                     images'[i].winners
                       = WinnersOf(finalWinners(rafQueue[k].pool,
                                                rafQueue[k].winnerCount, js),
                                   images'[i].id)]_vars

(* a draw over three cells of two images that has flashed a cell of the
   second image and whose duration has elapsed: the next frame completes it *)
C32_Witness ==
  /\ isLotteryRunning
  /\ Len(rafQueue) = 1
  /\ Len(rafQueue[1].pool) = 3
  /\ clock - rafQueue[1].startTime >= rafQueue[1].durationMs
  /\ tempFlasher # <<>>
  /\ tempFlasher[1].imageId = images[2].id

(* the permutations of the positions 1..n *)
Perms(n) == {f \in [1..n -> 1..n] : \A i, j \in 1..n : i # j => f[i] # f[j]}

(* C33: for the pool of every waiting draw, the array that the completing
   frame hands to shuffleArray: every sequence of choices j_i in [0, i] leaves
   the argument as it was and returns a permutation of it, and when its
   elements are distinct, distinct sequences return distinct permutations and
   every permutation is returned by one of them. *)
C33_ShufflePermutes ==
  \A k \in DOMAIN rafQueue :
    LET array == rafQueue[k].pool
        n == Len(array)
        results == {shuffleArrayArrays(array, js).arr : js \in ShuffleChoices(n)}
    IN  /\ \A js \in ShuffleChoices(n) :
             /\ shuffleArrayArrays(array, js).array = array
             /\ shuffleArrayArrays(array, js).arr = shuffleArray(array, js)
             /\ \E f \in Perms(n) :
                  shuffleArray(array, js) = [i \in 1..n |-> array[f[i]]]
        /\ Cardinality(Range(array)) = n =>
             /\ \A js1, js2 \in ShuffleChoices(n) :
                  shuffleArray(array, js1) = shuffleArray(array, js2) => js1 = js2
             /\ results = {[i \in 1..n |-> array[f[i]]] : f \in Perms(n)}

(* a draw over the four cells of a 2 x 2 grid has completed with the last
   cell as the winner *)
C33_Witness ==
  /\ ~isLotteryRunning
  /\ rafQueue = <<>>
  /\ Len(images) = 1
  /\ images[1].gridRows = 2 /\ images[1].gridCols = 2
  /\ images[1].excludedCells = <<>>
  /\ Len(globalWinners) = 1
  /\ globalWinners[1].cellIndex = 3
  /\ images[1].winners = <<3>>

(* index = row * cols + col maps the cells of a rows x cols grid one-to-one
   onto 0 .. rows * cols - 1, and floor(index / cols), index mod cols maps back *)
GridIndexing(rows, cols) ==
  LET cells == (0..(rows - 1)) \X (0..(cols - 1))
      index(cell) == cell[1] * cols + cell[2]
  IN  /\ {index(cell) : cell \in cells} = 0..(rows * cols - 1)
      /\ \A a, b \in cells : index(a) = index(b) => a = b
      /\ \A cell \in cells :
           <<index(cell) \div cols, index(cell) % cols>> = cell
      /\ \A idx \in 0..(rows * cols - 1) :
           /\ <<idx \div cols, idx % cols>> \in cells
           /\ index(<<idx \div cols, idx % cols>>) = idx

(* C34: on the grid of every image the cell index and (row, col) are inverse
   bijections; a click whose computed (row, col) is inside the grid toggles
   the index whose painted cell holds the release point, and a click whose
   computed (row, col) is outside the grid changes neither the images nor the
   history. *)
C34_CellIndexing ==
  [][/\ \A i \in DOMAIN images' :
          GridIndexing(images'[i].gridRows, images'[i].gridCols)
     /\ (ClickGestureEnds /\ activeLayoutIndex # 0) =>
          LET layout == getImagesLayout(images)[activeLayoutIndex]
              cx == activePointers[1].x
              cy == activePointers[1].y
              cell == CellUnder(layout, cx, cy)
          IN  layout.selection # <<>> =>
                IF cell = <<>>
                THEN images' = images /\ UNCHANGED <<history, future>>
                ELSE /\ cell[1] \in 0..(layout.gridRows * layout.gridCols - 1)
                     /\ InPainted(cx - RECT_LEFT, cy - RECT_TOP,
                                  paintedCell(layout, cell[1]))
                     /\ images'[activeLayoutIndex].excludedCells
                          = ToggleExcluded(layout.excludedCells, cell[1])]_vars

(* a press and release on the right boundary of the selection of a 2 x 2
   grid, between its handles, has left the images as the pointer-down
   recorded them *)
C34_Witness ==
  /\ mode = "none"
  /\ pointersDown = {}
  /\ startPos = Point(140, 110)
  /\ Len(images) = 1
  /\ images[1].gridRows = 2 /\ images[1].gridCols = 2
  /\ history # <<>>
  /\ Last(history).action = "move selection"
  /\ Snapshot(Last(history).images) = Snapshot(images)

(* C35: every image's excludedCells has no duplicates and holds only indices
   of cells of its grid, and the displayed total eligible count is the size
   of the pool a draw would build. *)
C35_ExcludedCellsValid ==
  /\ \A i \in DOMAIN images :
       /\ Cardinality(Range(images[i].excludedCells)) = Len(images[i].excludedCells)
       /\ Range(images[i].excludedCells)
            \subseteq 0..(images[i].gridRows * images[i].gridCols - 1)
  /\ totalEligibleCount(images) = Len(BuildPool(images))

(* a cell toggled off on a 2 x 2 grid that is back after an undo and a redo *)
C35_Witness ==
  /\ Len(images) = 1
  /\ images[1].selection # <<>>
  /\ images[1].gridRows = 2 /\ images[1].gridCols = 2
  /\ images[1].excludedCells # <<>>
  /\ history # <<>>
  /\ Last(history).action = "redo"
  /\ totalEligibleCount(images) = 3

(* the last two entries of the log were recorded by the pointer-downs of two
   canvas gestures G1 and G2, and G2 has been committed by its pointer-up *)
TwoGesturesCommitted ==
  /\ Len(history) >= 2
  /\ {history[Len(history) - 1].action, Last(history).action}
       \subseteq {"create selection", "move selection", "resize selection"}
  /\ pointersDown = {}
  /\ mode = "none"

(* C36: after two successive committed canvas gestures G1 then G2, a single
   undo restores the live model to the state immediately before G2 started,
   the one the pointer-down of G2 recorded. *)
C36_UndoRestoresBeforeLastGesture ==
  [][(TwoGesturesCommitted /\ undo) =>
       Snapshot(images') = Snapshot(Last(history).images)]_vars

(* C37: the step that completes a draw, whatever grid change, undo, redo,
   restore or removal came between its ticks, writes to every image only
   winner indices that are cells of the image's current grid, are not in its
   current excludedCells and belong to an image with a selection, and leaves
   only global winners whose image is in the list. *)
C37_WinnersValidAtCompletion ==
  [][Len(rafQueue') < Len(rafQueue) =>
       /\ \A i \in DOMAIN images' :
            \A a \in DOMAIN images'[i].winners :
              /\ images'[i].selection # <<>>
              /\ images'[i].winners[a] \in 0..(images'[i].gridRows * images'[i].gridCols - 1)
              /\ ~Includes(images'[i].excludedCells, images'[i].winners[a])
       /\ \A a \in DOMAIN globalWinners' :
            globalWinners'[a].imageId \in ImageIds(images')]_vars

(* a step of handlePointerDown, handlePointerMove or handlePointerUp: each
   adds, moves or deletes a tracked pointer *)
PointerEvent == activePointers' # activePointers

(* C38: while a draw is running no pointer event changes an image's selection,
   gridRows, gridCols or excludedCells or appends a history entry, the move
   and up events of a gesture that began before the draw included. *)
C38_PointerInertWhileRunning ==
  [][(isLotteryRunning /\ PointerEvent) =>
       /\ Snapshot(images') = Snapshot(images)
       /\ history' = history]_vars

(* C39: the active image id is null or the id of an image of the list. *)
C39_ActiveImageExists ==
  activeImageId = 0 \/ activeImageId \in ImageIds(images)

====
